---- MODULE Spec2Model ----
(***************************************************************************)
(* Traffic classification and priority mapping of the SDN controllers in   *)
(* SampleWork/enhanced_rule_controller.py (EnhancedRuleController, both    *)
(* class bodies of that file) and SampleWork/ml_enhanced_controller.py     *)
(* (MLEnhancedController).                                                 *)
(*                                                                         *)
(* Representation of Python values:                                        *)
(*   - a confidence (float in [0,1]) is an integer number of thousandths,  *)
(*     0..ConfScale; the literals of the code (0.9, 0.7, 0.3, ...) are     *)
(*     900, 700, 300, ...;                                                 *)
(*   - None is the string NoneLabel;                                       *)
(*   - a dict is a function whose DOMAIN is the set of keys present;       *)
(*   - a float quotient a / b is the pair [n |-> a, d |-> b], compared by  *)
(*     cross multiplication;                                               *)
(*   - time.time() is the integer variable now, in clock ticks.            *)
(***************************************************************************)
EXTENDS Integers, Sequences, FiniteSets, TLC

VARIABLES
    ctrl,           \* which controller class is instantiated: "rule", "legacy", "ml"
    mac_to_port,    \* self.mac_to_port
    flow_stats,     \* self.flow_stats
    counters,       \* self.classification_count, dpi_attempts, dpi_successes, ...
    model_loaded,   \* self.model_loaded (ML controller)
    bundle,         \* which optional parts the loaded bundle has (ML controller)
    now,            \* the value time.time() returns
    inp,            \* the arguments of the operation under way
    call,           \* what the last operation computed and returned
    sent            \* the messages the last handler gave to datapath.send_msg

vars == <<ctrl, mac_to_port, flow_stats, counters, model_loaded, bundle, now, inp, call, sent>>

\* One unit of confidence: confidences are thousandths.
ConfScale == 1000

\* Python's None, where a class label is expected.
NoneLabel == "None"

Min(a, b) == IF a <= b THEN a ELSE b

\* int(confidence * k) for a float confidence c / ConfScale: the product is
\* truncated toward zero.  Python's double arithmetic gives exactly this for
\* k = 500 on every thousandth in [0,1].
IntOfProduct(confidence, k) == (confidence * k) \div ConfScale

(***************************************************************************)
(* Priority mappers                                                        *)
(***************************************************************************)

rule_high_priority_classes ==
    {"DNS", "VOIP", "Video-Streaming", "Audio-Streaming", "Chat", "ICMP"}

rule_medium_priority_classes == {"Browsing", "Email", "SSH"}

rule_low_priority_classes == {"File-Transfer", "P2P", "Bulk", "TCP-Generic"}

\* A mapper that forgets the clamp and scales the boost by 5000.
Mutant_rule_priority_unclamped(traffic_class, confidence) ==
    LET base_priority ==
            IF traffic_class \in rule_high_priority_classes THEN 3000
            ELSE IF traffic_class \in rule_medium_priority_classes THEN 2000
            ELSE 1000
    IN  base_priority + IntOfProduct(confidence, 5000)

\* A mapper whose default base is 0 instead of 1000.
Mutant_rule_priority_default0(traffic_class, confidence) ==
    LET base_priority ==
            IF traffic_class \in rule_high_priority_classes THEN 3000
            ELSE IF traffic_class \in rule_medium_priority_classes THEN 2000
            ELSE IF traffic_class \in rule_low_priority_classes THEN 1000
            ELSE 0
    IN  Min(base_priority + IntOfProduct(confidence, 500), 3500)

get_priority_from_rule_classification(traffic_class, confidence) ==
    LET base_priority ==
            IF traffic_class \in rule_high_priority_classes THEN 3000
            ELSE IF traffic_class \in rule_medium_priority_classes THEN 2000
            ELSE IF traffic_class \in rule_low_priority_classes THEN 1000
            ELSE 1000
        confidence_boost == IntOfProduct(confidence, 500)
        final_priority == Min(base_priority + confidence_boost, 3500)
    IN  final_priority

ml_high_priority_classes ==
    {"DNS", "VOIP", "Video-Streaming", "Audio-Streaming", "Chat"}

ml_medium_priority_classes == {"Browsing", "Email", "SSH"}

ml_low_priority_classes == {"File-Transfer", "P2P", "Bulk"}

get_priority_from_ml_classification(traffic_class, confidence) ==
    LET base_priority ==
            IF traffic_class \in ml_high_priority_classes THEN 3000
            ELSE IF traffic_class \in ml_medium_priority_classes THEN 2000
            ELSE IF traffic_class \in ml_low_priority_classes THEN 1000
            ELSE 1000
        confidence_boost == IntOfProduct(confidence, 500)
        final_priority == Min(base_priority + confidence_boost, 3500)
    IN  final_priority

\* base_priorities of the run-all variant, as a set of <<label, base>> pairs.
base_priorities ==
    { <<"dns_traffic", 3000>>, <<"icmp_traffic", 2800>>, <<"web_traffic", 2500>>,
      <<"ssh_traffic", 2400>>, <<"gaming_traffic", 2300>>, <<"voip_traffic", 2200>>,
      <<"interactive_traffic", 2000>>, <<"connection_setup", 1800>>,
      <<"control_traffic", 1600>>, <<"email_traffic", 1400>>,
      <<"realtime_traffic", 1200>>, <<"tcp_traffic", 1000>>, <<"udp_traffic", 900>>,
      <<"bulk_traffic", 800>>, <<"ftp_traffic", 700>>, <<"other_protocol", 500>>,
      <<"non_ip", 300>>, <<"unknown", 100>> }

\* The thousandths c for which the double product (c / 1000) * 200 falls just
\* below the integer c / 5, so that int() returns one less than the exact floor.
LegacyRoundedDown == {145, 285, 290, 565, 570, 575, 580}

get_priority_from_classification(traffic_type, confidence) ==
    LET base_priority ==
            IF \E e \in base_priorities : e[1] = traffic_type
            THEN (CHOOSE e \in base_priorities : e[1] = traffic_type)[2]
            ELSE 100
        confidence_boost ==
            IF confidence \in LegacyRoundedDown
            THEN IntOfProduct(confidence, 200) - 1
            ELSE IntOfProduct(confidence, 200)
    IN  Min(base_priority + confidence_boost, 3200)

(***************************************************************************)
(* Packet bytes and feature dictionaries                                   *)
(***************************************************************************)

\* pkt.data: a byte string.  bytes holds its leading bytes, one character
\* each; pad counts the bytes after them, which are zero bytes and take part
\* in no pattern.  kind "none" is a pkt.data that is None instead of bytes.
Bytes(b, p) == [kind |-> "bytes", bytes |-> b, pad |-> p]

NoneData == [kind |-> "none", bytes |-> <<>>, pad |-> 0]

\* len(pkt.data)
DataLen(d) == Len(d.bytes) + d.pad

\* pattern in pkt_data, for bytes: pattern occurs as a contiguous slice.
Contains(pattern, d) ==
    \E i \in 0..(Len(d.bytes) - Len(pattern)) :
        SubSeq(d.bytes, i + 1, i + Len(pattern)) = pattern

\* The dict with no key.
EmptyDict == [k \in {} |-> 0]

\* features.get(key, default)
Get(features, key, default) ==
    IF key \in DOMAIN features THEN features[key] ELSE default

\* A float quotient n / d (d > 0), and the float an integer converts to.
Rat(n, d) == [n |-> n, d |-> d]

RatOfInt(k) == [n |-> k, d |-> 1]

\* r > k for a quotient r and an integer k
RatGt(r, k) == r.n > k * r.d

\* A classification triple (label, confidence, method).
Triple(c, conf, method) == [class |-> c, conf |-> conf, method |-> method]

(***************************************************************************)
(* Rule-based classifier (first class body of enhanced_rule_controller.py) *)
(***************************************************************************)

http_patterns ==
    { <<"G", "E", "T", " ">>, <<"P", "O", "S", "T", " ">>,
      <<"H", "T", "T", "P", "/">>, <<"H", "o", "s", "t", ":">> }

ssh_pattern == <<"S", "S", "H", "-">>

\* A signature stage whose outcome depends on the attempt counter.
Mutant_dpi_stateful(self, pkt_data) ==
    LET self1 == [self EXCEPT !.dpi_attempts = @ + 1]
    IN  IF pkt_data.kind = "none"
        THEN [ret |-> Triple(NoneLabel, 0, "DPI_Error"), self |-> self1]
        ELSE IF (\E pattern \in http_patterns : Contains(pattern, pkt_data))
                /\ self.dpi_attempts % 2 = 0
        THEN [ret |-> Triple("Browsing", 900, "DPI"),
              self |-> [self1 EXCEPT !.dpi_successes = @ + 1]]
        ELSE [ret |-> Triple(NoneLabel, 0, "DPI_Failed"), self |-> self1]

\* A signature stage that knows only the lower-case request line.
Mutant_dpi_no_get(self, pkt_data) ==
    LET self1 == [self EXCEPT !.dpi_attempts = @ + 1]
    IN  IF pkt_data.kind = "none"
        THEN [ret |-> Triple(NoneLabel, 0, "DPI_Error"), self |-> self1]
        ELSE IF \E pattern \in http_patterns \ {<<"G", "E", "T", " ">>} :
                    Contains(pattern, pkt_data)
        THEN [ret |-> Triple("Browsing", 900, "DPI"),
              self |-> [self1 EXCEPT !.dpi_successes = @ + 1]]
        ELSE [ret |-> Triple(NoneLabel, 0, "DPI_Failed"), self |-> self1]

\* Returns the triple and the controller's counters after the call.  A
\* pkt_data that is no byte string makes `pattern in pkt_data` raise, which
\* the bare except turns into (None, 0.0, 'DPI_Error').
attempt_dpi_classification(self, pkt_data) ==
    LET self1 == [self EXCEPT !.dpi_attempts = @ + 1]
    IN  IF pkt_data.kind = "none"
        THEN [ret |-> Triple(NoneLabel, 0, "DPI_Error"), self |-> self1]
        ELSE IF \E pattern \in http_patterns : Contains(pattern, pkt_data)
        THEN [ret |-> Triple("Browsing", 900, "DPI"),
              self |-> [self1 EXCEPT !.dpi_successes = @ + 1]]
        ELSE IF Contains(ssh_pattern, pkt_data)
        THEN [ret |-> Triple("SSH", 800, "DPI"),
              self |-> [self1 EXCEPT !.dpi_successes = @ + 1]]
        ELSE [ret |-> Triple(NoneLabel, 0, "DPI_Failed"), self |-> self1]

\* A port table that looks up the web ports before port 53.
Mutant_port_web_first(features) ==
    LET src_port == Get(features, "src_port", 0)
        dst_port == Get(features, "dst_port", 0)
    IN  IF dst_port \in {80, 443, 8080, 8443} \/ src_port \in {80, 443, 8080, 8443}
        THEN Triple("Browsing", 800, "Port-based")
        ELSE IF dst_port = 53 \/ src_port = 53
        THEN Triple("DNS", 900, "Port-based")
        ELSE IF dst_port = 22 \/ src_port = 22
        THEN Triple("SSH", 700, "Port-based")
        ELSE IF dst_port \in {25, 587, 993, 995} \/ src_port \in {25, 587, 993, 995}
        THEN Triple("Email", 600, "Port-based")
        ELSE IF dst_port \in {20, 21} \/ src_port \in {20, 21}
        THEN Triple("File-Transfer", 600, "Port-based")
        ELSE IF (16384 <= dst_port /\ dst_port <= 32768)
                \/ (16384 <= src_port /\ src_port <= 32768)
        THEN Triple("VOIP", 500, "Port-based")
        ELSE Triple(NoneLabel, 0, "Port-unknown")

port_based_classification(features) ==
    LET src_port == Get(features, "src_port", 0)
        dst_port == Get(features, "dst_port", 0)
    IN  IF dst_port = 53 \/ src_port = 53
        THEN Triple("DNS", 900, "Port-based")
        ELSE IF dst_port \in {80, 443, 8080, 8443} \/ src_port \in {80, 443, 8080, 8443}
        THEN Triple("Browsing", 800, "Port-based")
        ELSE IF dst_port = 22 \/ src_port = 22
        THEN Triple("SSH", 700, "Port-based")
        ELSE IF dst_port \in {25, 587, 993, 995} \/ src_port \in {25, 587, 993, 995}
        THEN Triple("Email", 600, "Port-based")
        ELSE IF dst_port \in {20, 21} \/ src_port \in {20, 21}
        THEN Triple("File-Transfer", 600, "Port-based")
        ELSE IF (16384 <= dst_port /\ dst_port <= 32768)
                \/ (16384 <= src_port /\ src_port <= 32768)
        THEN Triple("VOIP", 500, "Port-based")
        ELSE Triple(NoneLabel, 0, "Port-unknown")

statistical_classification(features) ==
    LET pkt_len == Get(features, "packet_length", 0)
        avg_pkt_size == Get(features, "avg_packet_size", RatOfInt(0))
        byte_rate == Get(features, "byte_rate", RatOfInt(0))
    IN  IF RatGt(avg_pkt_size, 1000) /\ RatGt(byte_rate, 100000)
        THEN Triple("Video-Streaming", 600, "Statistical")
        ELSE IF RatGt(avg_pkt_size, 1200) /\ RatGt(byte_rate, 500000)
        THEN Triple("File-Transfer", 600, "Statistical")
        ELSE IF pkt_len <= 64
        THEN Triple("Chat", 500, "Statistical")
        ELSE IF Get(features, "protocol_type", NoneLabel) = "ICMP"
        THEN Triple("ICMP", 800, "Statistical")
        ELSE Triple(NoneLabel, 0, "Statistical-unknown")

\* What every return of rule_based_classify_traffic does before it: one more
\* entry in rule_classification_times (kept as the list's length).
Timed(self) == [self EXCEPT !.times = @ + 1]

\* A cascade that accepts the port stage at confidence 0.5 already.
Mutant_rule_classify_port_ge(self, pkt_data, raw_features) ==
    LET self1 == [self EXCEPT !.classification_count = @ + 1]
        dpi == attempt_dpi_classification(self1, pkt_data)
        port == port_based_classification(raw_features)
        stat == statistical_classification(raw_features)
    IN  IF dpi.ret.conf > 700
        THEN [ret |-> dpi.ret, stages |-> <<"dpi">>, self |-> Timed(dpi.self)]
        ELSE IF port.conf >= 500
        THEN [ret |-> port, stages |-> <<"dpi", "port">>, self |-> Timed(dpi.self)]
        ELSE IF stat.conf > 400
        THEN [ret |-> stat, stages |-> <<"dpi", "port", "stat">>,
              self |-> Timed(dpi.self)]
        ELSE IF Get(raw_features, "protocol_type", "unknown") = "TCP"
        THEN [ret |-> Triple("TCP-Generic", 300, "Protocol-fallback"),
              stages |-> <<"dpi", "port", "stat", "protocol">>,
              self |-> Timed(dpi.self)]
        ELSE [ret |-> Triple("unknown", 100, "No-classification"),
              stages |-> <<"dpi", "port", "stat", "protocol">>,
              self |-> Timed(dpi.self)]

\* A cascade that hands back a stage's "no match" when nothing is accepted.
Mutant_rule_classify_no_fallback(self, pkt_data, raw_features) ==
    LET self1 == [self EXCEPT !.classification_count = @ + 1]
        dpi == attempt_dpi_classification(self1, pkt_data)
        port == port_based_classification(raw_features)
        stat == statistical_classification(raw_features)
    IN  IF dpi.ret.conf > 700
        THEN [ret |-> dpi.ret, stages |-> <<"dpi">>, self |-> Timed(dpi.self)]
        ELSE IF port.conf > 500
        THEN [ret |-> port, stages |-> <<"dpi", "port">>, self |-> Timed(dpi.self)]
        ELSE [ret |-> stat, stages |-> <<"dpi", "port", "stat">>,
              self |-> Timed(dpi.self)]

\* Returns the triple, the stages whose function was called (in call order)
\* and the controller's counters after the call.
rule_based_classify_traffic(self, pkt_data, raw_features) ==
    LET self1 == [self EXCEPT !.classification_count = @ + 1]
        dpi == attempt_dpi_classification(self1, pkt_data)
        port == port_based_classification(raw_features)
        stat == statistical_classification(raw_features)
        protocol_type == Get(raw_features, "protocol_type", "unknown")
    IN  IF dpi.ret.conf > 700
        THEN [ret |-> dpi.ret, stages |-> <<"dpi">>, self |-> Timed(dpi.self)]
        ELSE IF port.conf > 500
        THEN [ret |-> port, stages |-> <<"dpi", "port">>, self |-> Timed(dpi.self)]
        ELSE IF stat.conf > 400
        THEN [ret |-> stat, stages |-> <<"dpi", "port", "stat">>,
              self |-> Timed(dpi.self)]
        ELSE IF protocol_type = "TCP"
        THEN [ret |-> Triple("TCP-Generic", 300, "Protocol-fallback"),
              stages |-> <<"dpi", "port", "stat", "protocol">>,
              self |-> Timed(dpi.self)]
        ELSE [ret |-> Triple("unknown", 100, "No-classification"),
              stages |-> <<"dpi", "port", "stat", "protocol">>,
              self |-> Timed(dpi.self)]

(***************************************************************************)
(* State after construction                                                *)
(***************************************************************************)

\* The counters __init__ sets to 0; times is the length of
\* rule_classification_times (ml_processing_times in the ML controller).
FreshCounters ==
    [classification_count |-> 0, dpi_attempts |-> 0, dpi_successes |-> 0,
     classification_successes |-> 0, times |-> 0]

NoCall == [op |-> "none"]

NoInput == [op |-> "none"]

\* self.scaler and self.feature_selector before a bundle is loaded: None.
NoBundle ==
    [scaler |-> FALSE, feature_selector |-> FALSE, behaviour |-> [kind |-> "none"]]

\* The first value time.time() returns: the clock is past the epoch, so a
\* time stamp is never the float 0.0.
StartTime == 1

\* __init__ of the rule-based controllers: empty tables, zero counters.
Constructed(c) ==
    /\ ctrl = c
    /\ mac_to_port = EmptyDict
    /\ flow_stats = EmptyDict
    /\ counters = FreshCounters
    /\ now = StartTime
    /\ call = NoCall
    /\ sent = <<>>

(***************************************************************************)
(* SpecPriority: the three priority mappers, applied to every label and    *)
(* every confidence in thousandths.                                        *)
(***************************************************************************)

\* Labels the mappers of the early-exit and the ML controller are tried on:
\* every tier member and labels of no tier.
TierLabels ==
    rule_high_priority_classes \cup rule_medium_priority_classes
        \cup rule_low_priority_classes
        \cup {"unknown", "Unknown", "web_traffic", NoneLabel}

\* Labels the mapper of the run-all variant is tried on.
LegacyLabels == {e[1] : e \in base_priorities} \cup {"Browsing", NoneLabel}

InitPriority ==
    /\ \E c \in {"rule", "ml", "legacy"} : Constructed(c)
    /\ model_loaded = FALSE
    /\ bundle = NoBundle
    /\ \E l \in (IF ctrl = "legacy" THEN LegacyLabels ELSE TierLabels),
          c \in 0..ConfScale :
            inp = [op |-> "get_priority", traffic_class |-> l, confidence |-> c]

MapRulePriority ==
    /\ ctrl = "rule"
    /\ call' = [op |-> "get_priority",
                priority |-> get_priority_from_rule_classification(
                                 inp.traffic_class, inp.confidence)]
    /\ UNCHANGED <<ctrl, mac_to_port, flow_stats, counters, model_loaded, bundle, now, inp, sent>>

MapMlPriority ==
    /\ ctrl = "ml"
    /\ call' = [op |-> "get_priority",
                priority |-> get_priority_from_ml_classification(
                                 inp.traffic_class, inp.confidence)]
    /\ UNCHANGED <<ctrl, mac_to_port, flow_stats, counters, model_loaded, bundle, now, inp, sent>>

MapLegacyPriority ==
    /\ ctrl = "legacy"
    /\ call' = [op |-> "get_priority",
                priority |-> get_priority_from_classification(
                                 inp.traffic_class, inp.confidence)]
    /\ UNCHANGED <<ctrl, mac_to_port, flow_stats, counters, model_loaded, bundle, now, inp, sent>>

NextPriority == MapRulePriority \/ MapMlPriority \/ MapLegacyPriority

SpecPriority == InitPriority /\ [][NextPriority]_vars

(***************************************************************************)
(* SpecClassify: rule_based_classify_traffic called on one (payload,       *)
(* feature vector), up to MaxCalls times, in a controller that has already *)
(* classified other packets.                                               *)
(***************************************************************************)

\* Calls of rule_based_classify_traffic in one run, earlier ones included.
MaxCalls == 3

\* pkt.data values: request lines, headers, banners, near misses, opaque
\* bytes, the empty string and None.
Payloads ==
    { Bytes(<<"G", "E", "T", " ", "/">>, 0),
      Bytes(<<"x", "G", "E", "T", " ", "/", "y">>, 0),
      Bytes(<<"G", "E", "T", "/">>, 0),
      Bytes(<<"P", "O", "S", "T", " ", "/">>, 0),
      Bytes(<<"H", "o", "s", "t", ":">>, 0),
      Bytes(<<"S", "S", "H", "-", "2">>, 0),
      Bytes(<<"#", "#", "#">>, 0),
      Bytes(<<>>, 0),
      NoneData }

\* (src_port, dst_port) of a feature vector; <<>> is "no port keys".
PortChoices ==
    { <<>>, <<40000, 53>>, <<443, 53>>, <<443, 40000>>, <<40000, 22>>, <<40000, 25>>,
      <<21, 40000>>, <<40000, 16384>>, <<32768, 40000>>, <<40000, 32769>> }

\* (avg_packet_size, byte_rate) of a feature vector; <<>> is "neither key".
StatChoices ==
    { <<>>, <<Rat(1001, 1), Rat(100001, 1)>>, <<Rat(1000, 1), Rat(600000, 1)>>,
      <<Rat(3000, 2), Rat(600000, 1)>>, <<Rat(1201, 1), Rat(100000, 1)>> }

PortDict(p) ==
    IF p = <<>> THEN EmptyDict ELSE ("src_port" :> p[1]) @@ ("dst_port" :> p[2])

StatDict(s) ==
    IF s = <<>> THEN EmptyDict
    ELSE ("avg_packet_size" :> s[1]) @@ ("byte_rate" :> s[2])

ProtoDict(t) ==
    IF t = NoneLabel THEN EmptyDict ELSE ("protocol_type" :> t)

\* Feature vectors the classifier is tried on: with and without port keys,
\* a protocol type and flow statistics.
FeatureVectors ==
    { ("packet_length" :> l) @@ PortDict(p) @@ StatDict(s) @@ ProtoDict(t) :
        l \in {64, 65}, p \in PortChoices, s \in StatChoices,
        t \in {NoneLabel, "TCP", "UDP", "ICMP"} }

\* Counters of a rule-based controller that has classified n packets, s of
\* them by signature.
CountersAfter(n, s) ==
    [classification_count |-> n, dpi_attempts |-> n, dpi_successes |-> s,
     classification_successes |-> 0, times |-> n]

InitClassify ==
    /\ ctrl = "rule"
    /\ mac_to_port = EmptyDict
    /\ flow_stats = EmptyDict
    /\ \E n \in 0..(MaxCalls - 1), s \in 0..(MaxCalls - 1) :
          s <= n /\ counters = CountersAfter(n, s)
    /\ model_loaded = FALSE
    /\ bundle = NoBundle
    /\ now = StartTime
    /\ \E d \in Payloads, f \in FeatureVectors :
          inp = [op |-> "rule_classify", pkt_data |-> d, raw_features |-> f]
    /\ call = NoCall
    /\ sent = <<>>

RuleClassify ==
    /\ ctrl = "rule"
    /\ inp.op = "rule_classify"
    /\ counters.classification_count < MaxCalls
    /\ LET r == rule_based_classify_traffic(counters, inp.pkt_data, inp.raw_features)
       IN  /\ counters' = r.self
           /\ call' = [op |-> "rule_classify", ret |-> r.ret, stages |-> r.stages,
                        nth |-> IF call.op = "none" THEN 1 ELSE call.nth + 1]
    /\ UNCHANGED <<ctrl, mac_to_port, flow_stats, model_loaded, bundle, now, inp, sent>>

NextClassify == RuleClassify

SpecClassify == InitClassify /\ [][NextClassify]_vars

(***************************************************************************)
(* Packets and messages                                                    *)
(***************************************************************************)

\* ofproto.OFPP_FLOOD (0xfffffffb) and ofproto.OFP_NO_BUFFER (0xffffffff) of
\* OpenFlow 1.3, written as the signed 32-bit integers of the same bits.
OFPP_FLOOD == -5

OFP_NO_BUFFER == -1

\* Clock ticks per second: time.time() counts seconds, the model milliseconds.
TicksPerSec == 1000

\* pkt.get_protocol(...) returning None
NoHeader == [present |-> FALSE]

Ipv4Header(proto, total_length) ==
    [present |-> TRUE, proto |-> proto, ttl |-> 64, total_length |-> total_length,
     flags |-> 2]

TcpHeader(sp, dp, bits) ==
    [present |-> TRUE, src_port |-> sp, dst_port |-> dp, bits |-> bits,
     window_size |-> 8192]

UdpHeader(sp, dp, total_length) ==
    [present |-> TRUE, src_port |-> sp, dst_port |-> dp,
     total_length |-> total_length]

IcmpHeader == [present |-> TRUE]

\* packet.Packet(msg.data): the decoded headers and the raw bytes.
Packet(src, dst, ethertype, ip, tcp, udp, icmp, data) ==
    [eth |-> [src |-> src, dst |-> dst, ethertype |-> ethertype],
     ipv4 |-> ip, tcp |-> tcp, udp |-> udp, icmp |-> icmp, data |-> data]

\* value & mask # 0, for a one-bit mask
BitSet(value, mask) == (value \div mask) % 2 = 1

\* The sum of a list of numbers, halving the list so that a long window is
\* summed in few nested steps.
RECURSIVE SumSeq(_)
SumSeq(q) ==
    IF q = <<>> THEN 0
    ELSE IF Len(q) = 1 THEN q[1]
    ELSE LET half == Len(q) \div 2
         IN  SumSeq(SubSeq(q, 1, half)) + SumSeq(SubSeq(q, half + 1, Len(q)))

RECURSIVE SumSquares(_)
SumSquares(q) ==
    IF q = <<>> THEN 0
    ELSE IF Len(q) = 1 THEN q[1] * q[1]
    ELSE LET half == Len(q) \div 2
         IN  SumSquares(SubSeq(q, 1, half)) + SumSquares(SubSeq(q, half + 1, Len(q)))

\* np.mean(q), q not empty
Mean(q) == Rat(SumSeq(q), Len(q))

\* np.std(q) squared (the population variance), q not empty: the standard
\* deviation is its square root, and 0 exactly when this is 0.
StdSquared(q) == Rat(Len(q) * SumSquares(q) - SumSeq(q) * SumSeq(q), Len(q) * Len(q))

(***************************************************************************)
(* Flow tracker: extract_flow_features of both controllers                 *)
(***************************************************************************)

\* The FlowState a new flow key gets.
NewFlowStat(current_time) ==
    [packet_count |-> 0, byte_count |-> 0, start_time |-> current_time,
     last_packet_time |-> current_time, inter_arrival_times |-> <<>>,
     packet_sizes |-> <<>>]

\* A key that is the same for both directions between two hosts.
Mutant_flow_key_unordered(eth_src, eth_dst) ==
    CHOOSE k \in {<<eth_src, eth_dst>>, <<eth_dst, eth_src>>} : TRUE

\* f"{eth_src}-{eth_dst}"
FlowKey(eth_src, eth_dst) == <<eth_src, eth_dst>>

\* A tracker that stores the packet's length instead of adding it.
Mutant_update_overwrites_bytes(fs, flow_key, length, current_time) ==
    LET fs1 == IF flow_key \in DOMAIN fs THEN fs
               ELSE (flow_key :> NewFlowStat(current_time)) @@ fs
        st0 == fs1[flow_key]
        st1 == [st0 EXCEPT !.packet_count = @ + 1, !.byte_count = length]
        st2 == [st1 EXCEPT !.inter_arrival_times =
                               Append(@, current_time - st1.last_packet_time)]
        st3 == [st2 EXCEPT !.last_packet_time = current_time,
                           !.packet_sizes = Append(@, length)]
    IN  [flow_stats |-> [fs1 EXCEPT ![flow_key] = st3],
         has_inter_arrival |-> TRUE,
         inter_arrival |-> current_time - st1.last_packet_time]

\* A tracker that creates a flow with last_packet_time 0.0 instead of the
\* current time.
Mutant_update_new_flow_unstamped(fs, flow_key, length, current_time) ==
    LET fs1 == IF flow_key \in DOMAIN fs THEN fs
               ELSE (flow_key :> [NewFlowStat(current_time)
                                     EXCEPT !.last_packet_time = 0]) @@ fs
        st0 == fs1[flow_key]
        st1 == [st0 EXCEPT !.packet_count = @ + 1, !.byte_count = @ + length]
        has_iat == st1.last_packet_time # 0
        inter_arrival == current_time - st1.last_packet_time
        st2 == IF has_iat
               THEN [st1 EXCEPT !.inter_arrival_times = Append(@, inter_arrival)]
               ELSE st1
        st3 == [st2 EXCEPT !.last_packet_time = current_time,
                           !.packet_sizes = Append(@, length)]
    IN  [flow_stats |-> [fs1 EXCEPT ![flow_key] = st3],
         has_inter_arrival |-> has_iat,
         inter_arrival |-> inter_arrival]

\* A tracker that stamps every flow of the table with the packet's time.
Mutant_update_stamps_all_flows(fs, flow_key, length, current_time) ==
    LET fs1 == IF flow_key \in DOMAIN fs THEN fs
               ELSE (flow_key :> NewFlowStat(current_time)) @@ fs
        st0 == fs1[flow_key]
        st1 == [st0 EXCEPT !.packet_count = @ + 1, !.byte_count = @ + length]
        has_iat == st1.last_packet_time # 0
        inter_arrival == current_time - st1.last_packet_time
        st2 == IF has_iat
               THEN [st1 EXCEPT !.inter_arrival_times = Append(@, inter_arrival)]
               ELSE st1
        st3 == [st2 EXCEPT !.last_packet_time = current_time,
                           !.packet_sizes = Append(@, length)]
    IN  [flow_stats |->
             [j \in DOMAIN fs1 |->
                 IF j = flow_key THEN st3
                 ELSE [fs1[j] EXCEPT !.last_packet_time = current_time]],
         has_inter_arrival |-> has_iat,
         inter_arrival |-> inter_arrival]

\* A tracker that loses the count of a packet that arrives at the very time
\* of the flow's previous packet.
Mutant_update_same_time_lost(fs, flow_key, length, current_time) ==
    LET fs1 == IF flow_key \in DOMAIN fs THEN fs
               ELSE (flow_key :> NewFlowStat(current_time)) @@ fs
        st0 == fs1[flow_key]
        st1 == IF flow_key \in DOMAIN fs /\ st0.last_packet_time = current_time
               THEN [st0 EXCEPT !.byte_count = @ + length]
               ELSE [st0 EXCEPT !.packet_count = @ + 1, !.byte_count = @ + length]
        has_iat == st1.last_packet_time # 0
        inter_arrival == current_time - st1.last_packet_time
        st2 == IF has_iat
               THEN [st1 EXCEPT !.inter_arrival_times = Append(@, inter_arrival)]
               ELSE st1
        st3 == [st2 EXCEPT !.last_packet_time = current_time,
                           !.packet_sizes = Append(@, length)]
    IN  [flow_stats |-> [fs1 EXCEPT ![flow_key] = st3],
         has_inter_arrival |-> has_iat,
         inter_arrival |-> inter_arrival]

\* A tracker that stores no inter-arrival sample for the first packet of a
\* flow.
Mutant_update_first_packet_unsampled(fs, flow_key, length, current_time) ==
    LET fs1 == IF flow_key \in DOMAIN fs THEN fs
               ELSE (flow_key :> NewFlowStat(current_time)) @@ fs
        st0 == fs1[flow_key]
        st1 == [st0 EXCEPT !.packet_count = @ + 1, !.byte_count = @ + length]
        has_iat == st1.last_packet_time # 0
        inter_arrival == current_time - st1.last_packet_time
        st2 == IF has_iat /\ flow_key \in DOMAIN fs
               THEN [st1 EXCEPT !.inter_arrival_times = Append(@, inter_arrival)]
               ELSE st1
        st3 == [st2 EXCEPT !.last_packet_time = current_time,
                           !.packet_sizes = Append(@, length)]
    IN  [flow_stats |-> [fs1 EXCEPT ![flow_key] = st3],
         has_inter_arrival |-> has_iat,
         inter_arrival |-> inter_arrival]

\* The update of self.flow_stats[flow_key] by one packet; the same statements
\* in both controllers.  Returns the table and the inter-arrival time, which
\* exists only when the stored last_packet_time is truthy (not 0.0).
update_flow_stats(fs, flow_key, length, current_time) ==
    LET fs1 == IF flow_key \in DOMAIN fs THEN fs
               ELSE (flow_key :> NewFlowStat(current_time)) @@ fs
        st0 == fs1[flow_key]
        st1 == [st0 EXCEPT !.packet_count = @ + 1, !.byte_count = @ + length]
        has_iat == st1.last_packet_time # 0
        inter_arrival == current_time - st1.last_packet_time
        st2 == IF has_iat
               THEN [st1 EXCEPT !.inter_arrival_times = Append(@, inter_arrival)]
               ELSE st1
        st3 == [st2 EXCEPT !.last_packet_time = current_time,
                           !.packet_sizes = Append(@, length)]
    IN  [flow_stats |-> [fs1 EXCEPT ![flow_key] = st3],
         has_inter_arrival |-> has_iat,
         inter_arrival |-> inter_arrival]

\* A header extraction that writes 0 for the fields of a missing header.
Mutant_rule_header_zero_filled(pkt) ==
    LET ipf == IF pkt.ipv4.present
               THEN ("ip_proto" :> pkt.ipv4.proto) @@ ("ip_ttl" :> pkt.ipv4.ttl)
                        @@ ("ip_len" :> pkt.ipv4.total_length)
               ELSE ("ip_proto" :> 0) @@ ("ip_ttl" :> 0) @@ ("ip_len" :> 0)
        l4 == IF pkt.ipv4.present /\ pkt.tcp.present
              THEN ("src_port" :> pkt.tcp.src_port) @@ ("dst_port" :> pkt.tcp.dst_port)
                       @@ ("tcp_flags" :> pkt.tcp.bits) @@ ("protocol_type" :> "TCP")
              ELSE IF pkt.ipv4.present /\ pkt.udp.present
              THEN ("src_port" :> pkt.udp.src_port) @@ ("dst_port" :> pkt.udp.dst_port)
                       @@ ("tcp_flags" :> 0) @@ ("protocol_type" :> "UDP")
              ELSE ("src_port" :> 0) @@ ("dst_port" :> 0) @@ ("tcp_flags" :> 0)
    IN  l4 @@ ipf

\* Lines 70-94 of the rule-based controller: the keys set from the headers.
\* A later assignment to a key wins (UDP after TCP, ICMP last).
rule_header_features(pkt) ==
    LET ipf == IF pkt.ipv4.present
               THEN ("ip_proto" :> pkt.ipv4.proto) @@ ("ip_ttl" :> pkt.ipv4.ttl)
                        @@ ("ip_len" :> pkt.ipv4.total_length)
               ELSE EmptyDict
        tcpf == IF pkt.ipv4.present /\ pkt.tcp.present
                THEN ("src_port" :> pkt.tcp.src_port) @@ ("dst_port" :> pkt.tcp.dst_port)
                         @@ ("tcp_flags" :> pkt.tcp.bits) @@ ("protocol_type" :> "TCP")
                ELSE EmptyDict
        udpf == IF pkt.ipv4.present /\ pkt.udp.present
                THEN ("src_port" :> pkt.udp.src_port) @@ ("dst_port" :> pkt.udp.dst_port)
                         @@ ("protocol_type" :> "UDP")
                ELSE EmptyDict
        icmpf == IF pkt.ipv4.present /\ pkt.icmp.present
                 THEN ("protocol_type" :> "ICMP")
                 ELSE EmptyDict
    IN  icmpf @@ udpf @@ tcpf @@ ipf

\* Lines 110-138 of the ML controller.
ml_header_features(pkt) ==
    LET ipf == IF pkt.ipv4.present
               THEN ("ip_proto" :> pkt.ipv4.proto) @@ ("ip_ttl" :> pkt.ipv4.ttl)
                        @@ ("ip_len" :> pkt.ipv4.total_length)
                        @@ ("ip_flags" :> pkt.ipv4.flags)
               ELSE EmptyDict
        tcpf == IF pkt.ipv4.present /\ pkt.tcp.present
                THEN ("src_port" :> pkt.tcp.src_port) @@ ("dst_port" :> pkt.tcp.dst_port)
                         @@ ("tcp_window" :> pkt.tcp.window_size)
                         @@ ("tcp_flags" :> pkt.tcp.bits)
                         @@ ("tcp_fin" :> IF BitSet(pkt.tcp.bits, 1) THEN 1 ELSE 0)
                         @@ ("tcp_syn" :> IF BitSet(pkt.tcp.bits, 2) THEN 1 ELSE 0)
                         @@ ("tcp_rst" :> IF BitSet(pkt.tcp.bits, 4) THEN 1 ELSE 0)
                         @@ ("tcp_psh" :> IF BitSet(pkt.tcp.bits, 8) THEN 1 ELSE 0)
                         @@ ("tcp_ack" :> IF BitSet(pkt.tcp.bits, 16) THEN 1 ELSE 0)
                         @@ ("tcp_urg" :> IF BitSet(pkt.tcp.bits, 32) THEN 1 ELSE 0)
                ELSE EmptyDict
        udpf == IF pkt.ipv4.present /\ pkt.udp.present
                THEN ("src_port" :> pkt.udp.src_port) @@ ("dst_port" :> pkt.udp.dst_port)
                         @@ ("udp_len" :> pkt.udp.total_length)
                ELSE EmptyDict
    IN  udpf @@ tcpf @@ ipf

\* extract_flow_features of the rule-based controller: the feature dict and
\* the flow table after the call.  Times are in ticks, rates per second.
rule_extract_flow_features(fs, pkt, in_port, eth_src, eth_dst, current_time) ==
    LET length == DataLen(pkt.data)
        flow_key == FlowKey(eth_src, eth_dst)
        upd == update_flow_stats(fs, flow_key, length, current_time)
        flow_stat == upd.flow_stats[flow_key]
        flow_duration == current_time - flow_stat.start_time
        iat == IF upd.has_inter_arrival
               THEN ("inter_arrival_time" :> upd.inter_arrival)
               ELSE EmptyDict
        avg_iat == IF Len(flow_stat.inter_arrival_times) > 1
                   THEN ("avg_inter_arrival" :> Mean(flow_stat.inter_arrival_times))
                   ELSE EmptyDict
        avg_size == IF Len(flow_stat.packet_sizes) > 1
                    THEN ("avg_packet_size" :> Mean(flow_stat.packet_sizes))
                    ELSE EmptyDict
        rates == IF flow_duration > 0
                 THEN ("packet_rate" :>
                           Rat(flow_stat.packet_count * TicksPerSec, flow_duration))
                      @@ ("byte_rate" :>
                           Rat(flow_stat.byte_count * TicksPerSec, flow_duration))
                 ELSE EmptyDict
    IN  [features |->
             ("packet_length" :> length) @@ ("in_port" :> in_port)
                 @@ rule_header_features(pkt) @@ iat
                 @@ ("flow_duration" :> flow_duration)
                 @@ ("flow_packet_count" :> flow_stat.packet_count)
                 @@ ("flow_byte_count" :> flow_stat.byte_count)
                 @@ avg_iat @@ avg_size @@ rates,
         flow_stats |-> upd.flow_stats]

\* An extraction that reports mean packet size 0 for a window of one sample.
Mutant_ml_extract_single_size_zero(fs, pkt, in_port, eth_src, eth_dst, current_time) ==
    LET length == DataLen(pkt.data)
        flow_key == FlowKey(eth_src, eth_dst)
        upd == update_flow_stats(fs, flow_key, length, current_time)
        flow_stat == upd.flow_stats[flow_key]
        flow_duration == current_time - flow_stat.start_time
        many_iat == Len(flow_stat.inter_arrival_times) > 1
        many_sizes == Len(flow_stat.packet_sizes) > 1
    IN  [features |->
             ("packet_length" :> length) @@ ("in_port" :> in_port)
                 @@ ml_header_features(pkt)
                 @@ ("inter_arrival_time" :>
                        IF upd.has_inter_arrival THEN upd.inter_arrival ELSE 0)
                 @@ ("flow_duration" :> flow_duration)
                 @@ ("flow_packet_count" :> flow_stat.packet_count)
                 @@ ("flow_byte_count" :> flow_stat.byte_count)
                 @@ ("avg_inter_arrival" :>
                        IF many_iat THEN Mean(flow_stat.inter_arrival_times)
                        ELSE RatOfInt(0))
                 @@ ("std_inter_arrival" :>
                        IF many_iat THEN StdSquared(flow_stat.inter_arrival_times)
                        ELSE RatOfInt(0))
                 @@ ("avg_packet_size" :>
                        IF many_sizes THEN Mean(flow_stat.packet_sizes)
                        ELSE RatOfInt(0))
                 @@ ("std_packet_size" :>
                        IF many_sizes THEN StdSquared(flow_stat.packet_sizes)
                        ELSE RatOfInt(0))
                 @@ ("packet_rate" :>
                        IF flow_duration > 0
                        THEN Rat(flow_stat.packet_count * TicksPerSec, flow_duration)
                        ELSE RatOfInt(0))
                 @@ ("byte_rate" :>
                        IF flow_duration > 0
                        THEN Rat(flow_stat.byte_count * TicksPerSec, flow_duration)
                        ELSE RatOfInt(0)),
         flow_stats |-> upd.flow_stats]

\* extract_flow_features of the ML controller: every flow-derived key has an
\* else branch that writes a default.
ml_extract_flow_features(fs, pkt, in_port, eth_src, eth_dst, current_time) ==
    LET length == DataLen(pkt.data)
        flow_key == FlowKey(eth_src, eth_dst)
        upd == update_flow_stats(fs, flow_key, length, current_time)
        flow_stat == upd.flow_stats[flow_key]
        flow_duration == current_time - flow_stat.start_time
        many_iat == Len(flow_stat.inter_arrival_times) > 1
        many_sizes == Len(flow_stat.packet_sizes) > 1
    IN  [features |->
             ("packet_length" :> length) @@ ("in_port" :> in_port)
                 @@ ml_header_features(pkt)
                 @@ ("inter_arrival_time" :>
                        IF upd.has_inter_arrival THEN upd.inter_arrival ELSE 0)
                 @@ ("flow_duration" :> flow_duration)
                 @@ ("flow_packet_count" :> flow_stat.packet_count)
                 @@ ("flow_byte_count" :> flow_stat.byte_count)
                 @@ ("avg_inter_arrival" :>
                        IF many_iat THEN Mean(flow_stat.inter_arrival_times)
                        ELSE RatOfInt(0))
                 @@ ("std_inter_arrival" :>
                        IF many_iat THEN StdSquared(flow_stat.inter_arrival_times)
                        ELSE RatOfInt(0))
                 @@ ("avg_packet_size" :>
                        IF many_sizes THEN Mean(flow_stat.packet_sizes)
                        ELSE RatOfInt(length))
                 @@ ("std_packet_size" :>
                        IF many_sizes THEN StdSquared(flow_stat.packet_sizes)
                        ELSE RatOfInt(0))
                 @@ ("packet_rate" :>
                        IF flow_duration > 0
                        THEN Rat(flow_stat.packet_count * TicksPerSec, flow_duration)
                        ELSE RatOfInt(0))
                 @@ ("byte_rate" :>
                        IF flow_duration > 0
                        THEN Rat(flow_stat.byte_count * TicksPerSec, flow_duration)
                        ELSE RatOfInt(0)),
         flow_stats |-> upd.flow_stats]

(***************************************************************************)
(* Model-based classifier (ml_enhanced_controller.py)                      *)
(***************************************************************************)

\* expected_features of prepare_features_for_model, in list order.
expected_features ==
    << "packet_length", "ip_proto", "ip_ttl", "ip_len", "src_port", "dst_port",
       "tcp_window", "tcp_flags", "tcp_fin", "tcp_syn", "tcp_rst", "tcp_psh",
       "tcp_ack", "tcp_urg", "flow_duration", "flow_packet_count", "flow_byte_count",
       "avg_inter_arrival", "std_inter_arrival", "avg_packet_size", "std_packet_size",
       "packet_rate", "byte_rate" >>

\* A projection that leaves the keys the dict lacks out of the array.
Mutant_prepare_skips_missing(raw_features) ==
    LET present == SelectSeq(expected_features, LAMBDA n : n \in DOMAIN raw_features)
    IN  [i \in 1..Len(present) |-> raw_features[present[i]]]

\* The row of the array prepare_features_for_model builds (model loaded, no
\* exception): raw_features.get(feature, 0) for each expected feature.
prepare_features_for_model(raw_features) ==
    [i \in 1..Len(expected_features) |-> Get(raw_features, expected_features[i], 0)]

\* What the bundle's objects do in one call, which the controller does not
\* decide: feature preparation raises, the scaler raises, the scorer (predict,
\* predict_proba, the class_names lookup) raises, or the scorer answers with a
\* class and a maximum probability.
Failure(kind) == [kind |-> kind]

Answer(c, conf) == [kind |-> "ok", class |-> c, conf |-> conf]

NoOutcome == [kind |-> "none"]

\* A classifier that scales outside the try block.
Mutant_ml_classify_scaler_unguarded(self, loaded, bndl, raw_features, outcome) ==
    LET self1 == [self EXCEPT !.classification_count = @ + 1]
    IN  IF ~loaded
        THEN [ret |-> Triple("unknown", 100, "ML model not loaded"), self |-> self1,
              steps |-> <<>>, raised |-> FALSE]
        ELSE IF outcome.kind = "prepare_fails"
        THEN [ret |-> Triple("unknown", 100, "Feature preparation failed"),
              self |-> self1, steps |-> <<"prepare">>, raised |-> FALSE]
        ELSE IF bndl.scaler /\ outcome.kind = "scaler_raises"
        THEN [ret |-> Triple(NoneLabel, 0, "raised"), self |-> self1,
              steps |-> <<"prepare", "scale">>, raised |-> TRUE]
        ELSE IF outcome.kind = "predict_raises"
        THEN [ret |-> Triple("unknown", 100, "ML error"), self |-> self1,
              steps |-> <<"prepare">> \o (IF bndl.scaler THEN <<"scale">> ELSE <<>>)
                           \o <<"predict">>,
              raised |-> FALSE]
        ELSE [ret |-> Triple(outcome.class, outcome.conf, "ML prediction"),
              self |-> [self1 EXCEPT !.times = @ + 1,
                                     !.classification_successes = @ + 1],
              steps |-> <<"prepare">> \o (IF bndl.scaler THEN <<"scale">> ELSE <<>>)
                           \o <<"predict">>,
              raised |-> FALSE]

\* A classifier whose answer without a bundle carries confidence 0.3.
Mutant_ml_classify_unloaded_at_threshold(self, loaded, bndl, raw_features, outcome) ==
    LET self1 == [self EXCEPT !.classification_count = @ + 1]
    IN  IF ~loaded
        THEN [ret |-> Triple("unknown", 300, "ML model not loaded"), self |-> self1,
              steps |-> <<>>, raised |-> FALSE]
        ELSE IF outcome.kind = "prepare_fails"
        THEN [ret |-> Triple("unknown", 100, "Feature preparation failed"),
              self |-> self1, steps |-> <<"prepare">>, raised |-> FALSE]
        ELSE IF bndl.scaler /\ outcome.kind = "scaler_raises"
        THEN [ret |-> Triple("unknown", 100, "ML error"), self |-> self1,
              steps |-> <<"prepare", "scale">>, raised |-> FALSE]
        ELSE IF outcome.kind = "predict_raises"
        THEN [ret |-> Triple("unknown", 100, "ML error"), self |-> self1,
              steps |-> <<"prepare">> \o (IF bndl.scaler THEN <<"scale">> ELSE <<>>)
                           \o <<"predict">>,
              raised |-> FALSE]
        ELSE [ret |-> Triple(outcome.class, outcome.conf, "ML prediction"),
              self |-> [self1 EXCEPT !.times = @ + 1,
                                     !.classification_successes = @ + 1],
              steps |-> <<"prepare">> \o (IF bndl.scaler THEN <<"scale">> ELSE <<>>)
                           \o <<"predict">>,
              raised |-> FALSE]

\* Returns the triple, the counters after the call, the steps taken on the
\* feature array in order, and whether an exception leaves the method (the
\* try block spans every step, so none does).
ml_classify_traffic(self, loaded, bndl, raw_features, outcome) ==
    LET self1 == [self EXCEPT !.classification_count = @ + 1]
    IN  IF ~loaded
        THEN [ret |-> Triple("unknown", 100, "ML model not loaded"), self |-> self1,
              steps |-> <<>>, raised |-> FALSE]
        ELSE IF outcome.kind = "prepare_fails"
        THEN [ret |-> Triple("unknown", 100, "Feature preparation failed"),
              self |-> self1, steps |-> <<"prepare">>, raised |-> FALSE]
        ELSE IF bndl.scaler /\ outcome.kind = "scaler_raises"
        THEN [ret |-> Triple("unknown", 100, "ML error"), self |-> self1,
              steps |-> <<"prepare", "scale">>, raised |-> FALSE]
        ELSE IF outcome.kind = "predict_raises"
        THEN [ret |-> Triple("unknown", 100, "ML error"), self |-> self1,
              steps |-> <<"prepare">> \o (IF bndl.scaler THEN <<"scale">> ELSE <<>>)
                           \o <<"predict">>,
              raised |-> FALSE]
        ELSE [ret |-> Triple(outcome.class, outcome.conf, "ML prediction"),
              self |-> [self1 EXCEPT !.times = @ + 1,
                                     !.classification_successes = @ + 1],
              steps |-> <<"prepare">> \o (IF bndl.scaler THEN <<"scale">> ELSE <<>>)
                           \o <<"predict">>,
              raised |-> FALSE]

\* A fallback table that looks up port 53 before the web ports.
Mutant_fallback_dns_first(raw_features) ==
    LET src_port == Get(raw_features, "src_port", 0)
        dst_port == Get(raw_features, "dst_port", 0)
    IN  IF dst_port = 53 \/ src_port = 53
        THEN Triple("DNS", 800, "Port-based fallback")
        ELSE IF dst_port \in {80, 443, 8080, 8443} \/ src_port \in {80, 443, 8080, 8443}
        THEN Triple("Browsing", 700, "Port-based fallback")
        ELSE IF dst_port = 22 \/ src_port = 22
        THEN Triple("SSH", 700, "Port-based fallback")
        ELSE Triple("unknown", 300, "Fallback classification")

\* A fallback table whose default carries confidence 0.2.
Mutant_fallback_default_low(raw_features) ==
    LET src_port == Get(raw_features, "src_port", 0)
        dst_port == Get(raw_features, "dst_port", 0)
    IN  IF dst_port \in {80, 443, 8080, 8443} \/ src_port \in {80, 443, 8080, 8443}
        THEN Triple("Browsing", 700, "Port-based fallback")
        ELSE IF dst_port = 53 \/ src_port = 53
        THEN Triple("DNS", 800, "Port-based fallback")
        ELSE IF dst_port = 22 \/ src_port = 22
        THEN Triple("SSH", 700, "Port-based fallback")
        ELSE Triple("unknown", 200, "Fallback classification")

fallback_classify_traffic(raw_features) ==
    LET src_port == Get(raw_features, "src_port", 0)
        dst_port == Get(raw_features, "dst_port", 0)
    IN  IF dst_port \in {80, 443, 8080, 8443} \/ src_port \in {80, 443, 8080, 8443}
        THEN Triple("Browsing", 700, "Port-based fallback")
        ELSE IF dst_port = 53 \/ src_port = 53
        THEN Triple("DNS", 800, "Port-based fallback")
        ELSE IF dst_port = 22 \/ src_port = 22
        THEN Triple("SSH", 700, "Port-based fallback")
        ELSE Triple("unknown", 300, "Fallback classification")

\* f"Fallback after ML: {method}"
FallbackTag(method) ==
    IF method = "Port-based fallback"
    THEN "Fallback after ML: Port-based fallback"
    ELSE "Fallback after ML: Fallback classification"

\* A handler that keeps a model result of confidence 0.2 or more.
Mutant_ml_decide_threshold(self, loaded, bndl, raw_features, outcome) ==
    LET r == ml_classify_traffic(self, loaded, bndl, raw_features, outcome)
        fb == fallback_classify_traffic(raw_features)
        chosen == IF r.ret.conf < 200
                  THEN Triple(fb.class, fb.conf, FallbackTag(fb.method))
                  ELSE r.ret
    IN  [ret |-> chosen, self |-> r.self, steps |-> r.steps, raised |-> r.raised,
         priority |-> get_priority_from_ml_classification(chosen.class, chosen.conf)]

\* Lines 356-365 of the ML packet_in_handler: classify, fall back below 0.3,
\* map to a priority.  An exception out of ml_classify_traffic would leave
\* the handler before the fallback.
ml_decide(self, loaded, bndl, raw_features, outcome) ==
    LET r == ml_classify_traffic(self, loaded, bndl, raw_features, outcome)
        fb == fallback_classify_traffic(raw_features)
        chosen == IF r.raised THEN r.ret
                  ELSE IF r.ret.conf < 300
                  THEN Triple(fb.class, fb.conf, FallbackTag(fb.method))
                  ELSE r.ret
    IN  [ret |-> chosen, self |-> r.self, steps |-> r.steps, raised |-> r.raised,
         priority |-> get_priority_from_ml_classification(chosen.class, chosen.conf)]

\* Lines 324-327 of the rule-based packet_in_handler.
rule_decide(self, pkt, raw_features) ==
    LET r == rule_based_classify_traffic(self, pkt.data, raw_features)
    IN  [ret |-> r.ret, self |-> r.self, steps |-> r.stages, raised |-> FALSE,
         priority |-> get_priority_from_rule_classification(r.ret.class, r.ret.conf)]

(***************************************************************************)
(* packet_in_handler                                                       *)
(***************************************************************************)

\* buffer_id=None, the default of add_flow's parameter: no buffer id at all.
NoArg == -1000

\* An add_flow that installs every rule at priority 0, the priority of the
\* table-miss entry.
Mutant_add_flow_table_miss_priority(priority, match, out_port, buffer_id) ==
    [type |-> "flow_mod", priority |-> 0, match |-> match,
     out_port |-> out_port,
     buffer_id |-> IF buffer_id # NoArg /\ buffer_id # 0 THEN buffer_id
                   ELSE OFP_NO_BUFFER]

\* add_flow: the OFPFlowMod given to send_msg.  `if buffer_id:` is false for
\* None and for 0; a flow-mod built without buffer_id carries OFP_NO_BUFFER.
add_flow(priority, match, out_port, buffer_id) ==
    [type |-> "flow_mod", priority |-> priority, match |-> match,
     out_port |-> out_port,
     buffer_id |-> IF buffer_id # NoArg /\ buffer_id # 0 THEN buffer_id
                   ELSE OFP_NO_BUFFER]

\* The OFPPacketOut of the handler's last lines.
packet_out(msg, out_port) ==
    [type |-> "packet_out", buffer_id |-> msg.buffer_id, in_port |-> msg.in_port,
     out_port |-> out_port, has_data |-> msg.buffer_id = OFP_NO_BUFFER]

\* self.mac_to_port.setdefault(dpid, {}); self.mac_to_port[dpid][src] = in_port
Learn(table, dpid, src, in_port) ==
    LET t0 == IF dpid \in DOMAIN table THEN table ELSE (dpid :> EmptyDict) @@ table
    IN  [t0 EXCEPT ![dpid] = (src :> in_port) @@ @]

\* out_port as the handler chooses it, after learning src.
OutPort(table, dpid, dst) ==
    IF dst \in DOMAIN table[dpid] THEN table[dpid][dst] ELSE OFPP_FLOOD

\* Whether the handler classifies this message in this state.
Classifies(msg) ==
    /\ msg.pkt.eth.ethertype # "LLDP"
    /\ OutPort(Learn(mac_to_port, msg.dpid, msg.pkt.eth.src, msg.in_port),
               msg.dpid, msg.pkt.eth.dst) # OFPP_FLOOD

\* The part of packet_in_handler both controllers share, given the features
\* and the decision d of the controller's own classifier (both computed only
\* when the destination is known).
HandlePacketIn(msg, ex, d) ==
    LET pkt == msg.pkt
        src == pkt.eth.src
        dst == pkt.eth.dst
        table == Learn(mac_to_port, msg.dpid, src, msg.in_port)
        out_port == OutPort(table, msg.dpid, dst)
        match == [in_port |-> msg.in_port, eth_dst |-> dst, eth_src |-> src]
    IN  IF pkt.eth.ethertype = "LLDP"
        THEN /\ call' = [op |-> "packet_in", kind |-> "lldp"]
             /\ sent' = <<>>
             /\ UNCHANGED <<mac_to_port, flow_stats, counters>>
        ELSE IF out_port = OFPP_FLOOD
        THEN /\ mac_to_port' = table
             /\ call' = [op |-> "packet_in", kind |-> "flood"]
             /\ sent' = <<packet_out(msg, out_port)>>
             /\ UNCHANGED <<flow_stats, counters>>
        ELSE /\ mac_to_port' = table
             /\ flow_stats' = ex.flow_stats
             /\ counters' = d.self
             /\ call' = [op |-> "packet_in", kind |-> "classified",
                         flow_key |-> FlowKey(src, dst), features |-> ex.features,
                         ret |-> d.ret, steps |-> d.steps, raised |-> d.raised,
                         priority |-> d.priority]
             /\ sent' =
                    IF d.raised THEN <<>>
                    ELSE IF msg.buffer_id # OFP_NO_BUFFER
                    THEN <<add_flow(d.priority, match, out_port, msg.buffer_id)>>
                    ELSE <<add_flow(d.priority, match, out_port, NoArg),
                           packet_out(msg, out_port)>>

(***************************************************************************)
(* Spec: one controller, rule-based or model-based, receiving packet-in    *)
(* events from one switch while the clock advances.                        *)
(***************************************************************************)

\* The last value the clock reaches.
MaxTime == 3

\* Packets a controller classifies in one run.
MaxPackets == 2

Hosts == {"h1", "h2"}

\* The switch port a host is attached to.
InPortOf(h) == IF h = "h1" THEN 1 ELSE 2

SignatureFrame == Bytes(<<"G", "E", "T", " ", "/">>, 55)

OpaqueFrame == Bytes(<<"#", "#", "#">>, 1497)

\* Frames a controller is sent: an opaque frame of 1500 bytes and, for the
\* controller that reads payloads, a signature-bearing frame of 60 bytes.
DataChoices(c) ==
    IF c = "rule" THEN {SignatureFrame, OpaqueFrame} ELSE {OpaqueFrame}

WebSyn(src, dst, data) ==
    Packet(src, dst, "IP", Ipv4Header(6, DataLen(data) - 14),
           TcpHeader(40000, 80, 2), NoHeader, NoHeader, data)

\* The decodings of a frame: no IP header (ARP), ICMP, TCP to a web port with
\* SYN, TCP between unregistered ports with PSH|ACK, UDP to port 53.
PacketsOf(src, dst, data) ==
    LET ip(proto) == Ipv4Header(proto, DataLen(data) - 14)
    IN  { Packet(src, dst, "ARP", NoHeader, NoHeader, NoHeader, NoHeader, data),
          Packet(src, dst, "IP", ip(1), NoHeader, NoHeader, IcmpHeader, data),
          WebSyn(src, dst, data),
          Packet(src, dst, "IP", ip(6), TcpHeader(40000, 40001, 24), NoHeader,
                 NoHeader, data),
          Packet(src, dst, "IP", ip(17), NoHeader,
                 UdpHeader(40000, 53, DataLen(data) - 34), NoHeader, data) }

HostPairs == {x \in Hosts \X Hosts : x[1] # x[2]}

PacketIn(p, b) ==
    [dpid |-> 1, in_port |-> InPortOf(p.eth.src), buffer_id |-> b, pkt |-> p]

\* The EventOFPPacketIn messages the switch delivers to controller c: every
\* decoding in both directions, unbuffered; a web SYN buffered under ids 0
\* and 7; an LLDP frame.
Messages(c) ==
    { PacketIn(p, OFP_NO_BUFFER) :
        p \in UNION { PacketsOf(e[1], e[2], data) :
                        e \in HostPairs, data \in DataChoices(c) } }
      \cup
    { PacketIn(WebSyn(e[1], e[2], OpaqueFrame), b) : e \in HostPairs, b \in {0, 7} }
      \cup
    { PacketIn(Packet("h1", "lldp", "LLDP", NoHeader, NoHeader, NoHeader, NoHeader,
                      OpaqueFrame), OFP_NO_BUFFER) }

\* What the objects of a loaded bundle do when called.  The bundle is loaded
\* once and read-only: a run has one scorer, which here raises at a given
\* step on every call or answers every call with one class and one maximum
\* probability.
Behaviours(scaler) ==
    { Failure("prepare_fails"), Failure("predict_raises") }
        \cup (IF scaler THEN {Failure("scaler_raises")} ELSE {})
        \cup { Answer("Unknown", 150), Answer("DNS", 299), Answer("DNS", 300),
               Answer("File-Transfer", 801) }

\* load_ml_model: the file is absent or unreadable, or the load fails after
\* it has assigned some of the bundle's fields (a key is missing from the
\* pickle, a log line raises), which leaves model_loaded false; or a bundle is
\* loaded whose scaler and feature selector may each be None.
Loaded ==
    \/ /\ model_loaded = FALSE
       /\ \E sc \in BOOLEAN, fsel \in BOOLEAN :
             bundle = [scaler |-> sc, feature_selector |-> fsel,
                       behaviour |-> NoOutcome]
    \/ /\ model_loaded = TRUE
       /\ \E sc \in BOOLEAN, fsel \in BOOLEAN :
             \E bh \in Behaviours(sc) :
                bundle = [scaler |-> sc, feature_selector |-> fsel, behaviour |-> bh]

Init ==
    /\ \E c \in {"rule", "ml"} : Constructed(c)
    /\ IF ctrl = "ml" THEN Loaded ELSE (model_loaded = FALSE /\ bundle = NoBundle)
    /\ inp = NoInput

RulePacketIn ==
    /\ ctrl = "rule"
    /\ \E m \in Messages(ctrl) :
          /\ Classifies(m) => counters.classification_count < MaxPackets
          /\ LET ex == rule_extract_flow_features(flow_stats, m.pkt, m.in_port,
                                                  m.pkt.eth.src, m.pkt.eth.dst, now)
                 d == rule_decide(counters, m.pkt, ex.features)
             IN  HandlePacketIn(m, ex, d)
          /\ inp' = [op |-> "packet_in", msg |-> m]
    /\ UNCHANGED <<ctrl, model_loaded, bundle, now>>

MlPacketIn ==
    /\ ctrl = "ml"
    /\ \E m \in Messages(ctrl) :
          /\ Classifies(m) => counters.classification_count < MaxPackets
          /\ LET ex == ml_extract_flow_features(flow_stats, m.pkt, m.in_port,
                                                m.pkt.eth.src, m.pkt.eth.dst, now)
                 d == ml_decide(counters, model_loaded, bundle, ex.features,
                                bundle.behaviour)
             IN  HandlePacketIn(m, ex, d)
          /\ inp' = [op |-> "packet_in", msg |-> m]
    /\ UNCHANGED <<ctrl, model_loaded, bundle, now>>

\* time.time() returns a later value at the next call.
Tick ==
    /\ now < MaxTime
    /\ now' = now + 1
    /\ UNCHANGED <<ctrl, mac_to_port, flow_stats, counters, model_loaded, bundle, inp,
                   call, sent>>

Next == RulePacketIn \/ MlPacketIn \/ Tick

Spec == Init /\ [][Next]_vars

(***************************************************************************)
(* SpecFallback: fallback_classify_traffic of the model-based controller    *)
(* called on one feature dict.                                             *)
(***************************************************************************)

\* Port numbers of a feature dict: one of each entry of the two port tables
\* and one that neither table holds.
FallbackPorts == {21, 22, 25, 53, 80, 443, 20000, 40000}

\* The dicts fallback_classify_traffic is tried on: every pair of ports, and
\* a dict without port keys.
FallbackFeatures ==
    { ("packet_length" :> 64) @@ PortDict(<<sp, dp>>) :
        sp \in FallbackPorts, dp \in FallbackPorts }
      \cup { ("packet_length" :> 64) }

InitFallback ==
    /\ Constructed("ml")
    /\ Loaded
    /\ \E f \in FallbackFeatures : inp = [op |-> "fallback", raw_features |-> f]

\* fallback_classify_traffic reads its argument and no field of the
\* controller, and writes none.
MlFallback ==
    /\ ctrl = "ml"
    /\ inp.op = "fallback"
    /\ call' = [op |-> "fallback", ret |-> fallback_classify_traffic(inp.raw_features)]
    /\ UNCHANGED <<ctrl, mac_to_port, flow_stats, counters, model_loaded, bundle, now,
                   inp, sent>>

NextFallback == MlFallback

SpecFallback == InitFallback /\ [][NextFallback]_vars

(***************************************************************************)
(* SpecStream: the rule-based controller receiving one long flow: a frame  *)
(* from h1, then frames from h2 to h1 without end.                         *)
(***************************************************************************)

\* Packets of the long flow.
MaxStream == 1025

StreamFrame == Bytes(<<"#", "#", "#">>, 57)

\* A frame without IP header from src to dst, unbuffered.
StreamMessage(src, dst) ==
    PacketIn(Packet(src, dst, "ARP", NoHeader, NoHeader, NoHeader, NoHeader,
                    StreamFrame), OFP_NO_BUFFER)

InitStream ==
    /\ Constructed("rule")
    /\ model_loaded = FALSE
    /\ bundle = NoBundle
    /\ inp = NoInput

\* packet_in_handler of the rule-based controller on the next frame of the
\* flow: h1 speaks once, h2 ever after.
StreamPacketIn ==
    /\ ctrl = "rule"
    /\ counters.classification_count < MaxStream
    /\ LET m == IF mac_to_port = EmptyDict THEN StreamMessage("h1", "h2")
                ELSE StreamMessage("h2", "h1")
           ex == rule_extract_flow_features(flow_stats, m.pkt, m.in_port,
                                            m.pkt.eth.src, m.pkt.eth.dst, now)
           d == rule_decide(counters, m.pkt, ex.features)
       IN  /\ HandlePacketIn(m, ex, d)
           /\ inp' = [op |-> "packet_in", msg |-> m]
    /\ UNCHANGED <<ctrl, model_loaded, bundle, now>>

NextStream == StreamPacketIn

SpecStream == InitStream /\ [][NextStream]_vars

(***************************************************************************)
(* SpecConcurrent: packet-in events delivered while earlier ones still     *)
(* wait.  The switch connections put EventOFPPacketIn events into the      *)
(* application's event queue in any order and at any time; the application *)
(* has one event loop, which takes one event from the queue and calls      *)
(* packet_in_handler, registered by @set_ev_cls, with it.  The handler     *)
(* starts no thread and waits for nothing before it has updated the flow   *)
(* table.  Here inp holds the queue: the events delivered and not yet      *)
(* handled, each with the number of events it was queued behind, the       *)
(* number of events delivered so far, and the event handled last.          *)
(***************************************************************************)

\* Events delivered in one run, and events waiting at one time.
MaxDelivered == 3

MaxQueued == 2

\* A short frame from h1 to h2, a short frame from h2 to h1 and a 1500-byte
\* web SYN from h2 to h1: the last two have the same flow key.
ConcurrentMessages ==
    { StreamMessage("h1", "h2"), StreamMessage("h2", "h1"),
      PacketIn(WebSyn("h2", "h1", OpaqueFrame), OFP_NO_BUFFER) }

InitConcurrent ==
    /\ \E c \in {"rule", "ml"} : Constructed(c)
    /\ IF ctrl = "ml" THEN Loaded ELSE (model_loaded = FALSE /\ bundle = NoBundle)
    /\ inp = [op |-> "events", queue |-> <<>>, delivered |-> 0, handled |-> NoInput]

\* A switch connection queues one more event for the application.
Deliver ==
    /\ inp.delivered < MaxDelivered
    /\ Len(inp.queue) < MaxQueued
    /\ \E m \in ConcurrentMessages :
          inp' = [inp EXCEPT !.queue = Append(@, [msg |-> m, behind |-> Len(inp.queue)]),
                             !.delivered = @ + 1]
    /\ UNCHANGED <<ctrl, mac_to_port, flow_stats, counters, model_loaded, bundle, now,
                   call, sent>>

\* The event loop of the rule-based application handles the oldest event.
RuleDispatch ==
    /\ ctrl = "rule"
    /\ inp.queue # <<>>
    /\ LET m == Head(inp.queue).msg
           ex == rule_extract_flow_features(flow_stats, m.pkt, m.in_port,
                                            m.pkt.eth.src, m.pkt.eth.dst, now)
           d == rule_decide(counters, m.pkt, ex.features)
       IN  HandlePacketIn(m, ex, d)
    /\ inp' = [inp EXCEPT !.queue = Tail(@), !.handled = Head(inp.queue)]
    /\ UNCHANGED <<ctrl, model_loaded, bundle, now>>

\* The event loop of the model-based application handles the oldest event.
MlDispatch ==
    /\ ctrl = "ml"
    /\ inp.queue # <<>>
    /\ LET m == Head(inp.queue).msg
           ex == ml_extract_flow_features(flow_stats, m.pkt, m.in_port,
                                          m.pkt.eth.src, m.pkt.eth.dst, now)
           d == ml_decide(counters, model_loaded, bundle, ex.features,
                          bundle.behaviour)
       IN  HandlePacketIn(m, ex, d)
    /\ inp' = [inp EXCEPT !.queue = Tail(@), !.handled = Head(inp.queue)]
    /\ UNCHANGED <<ctrl, model_loaded, bundle, now>>

NextConcurrent == Deliver \/ RuleDispatch \/ MlDispatch \/ Tick

SpecConcurrent == InitConcurrent /\ [][NextConcurrent]_vars

(***************************************************************************)
(* SpecArbitrate: the model-based controller, which has learned the ports  *)
(* of both hosts from flooded frames, receiving one packet-in, for every   *)
(* port pair and every answer of the bundle.                               *)
(***************************************************************************)

\* What the bundle does in the run: it raises at a step, or the scorer
\* answers with a class and a maximum probability at, next to and far from
\* the threshold 0.3.
ArbitrateOutcomes(scaler) ==
    { Failure("prepare_fails"), Failure("predict_raises") }
        \cup (IF scaler THEN {Failure("scaler_raises")} ELSE {})
        \cup { Answer(c, p) : c \in {"DNS", "Browsing", "ICMP", "Unknown"},
                              p \in {0, 100, 299, 300, 301, 1000} }

\* A TCP segment from h2 to h1 between two ports, and a frame without ports.
ArbitrateMessages ==
    { PacketIn(Packet("h2", "h1", "IP", Ipv4Header(6, DataLen(StreamFrame) - 14),
                      TcpHeader(sp, dp, 24), NoHeader, NoHeader, StreamFrame),
               OFP_NO_BUFFER) :
        sp \in FallbackPorts, dp \in FallbackPorts }
      \cup { StreamMessage("h2", "h1") }

\* The table after each host has sent a frame to an address not yet learned
\* (a broadcast): both ports are known and no packet has been classified.
InitArbitrate ==
    /\ ctrl = "ml"
    /\ mac_to_port = (1 :> (("h1" :> InPortOf("h1")) @@ ("h2" :> InPortOf("h2"))))
    /\ flow_stats = EmptyDict
    /\ counters = FreshCounters
    /\ now = StartTime
    /\ call = NoCall
    /\ sent = <<>>
    /\ inp = NoInput
    /\ \/ /\ model_loaded = FALSE
          /\ \E sc \in BOOLEAN, fsel \in BOOLEAN :
                bundle = [scaler |-> sc, feature_selector |-> fsel,
                          behaviour |-> NoOutcome]
       \/ /\ model_loaded = TRUE
          /\ \E sc \in BOOLEAN, fsel \in BOOLEAN :
                \E bh \in ArbitrateOutcomes(sc) :
                   bundle = [scaler |-> sc, feature_selector |-> fsel, behaviour |-> bh]

\* packet_in_handler of the model-based controller on the one packet.
ArbitratePacketIn ==
    /\ ctrl = "ml"
    /\ counters.classification_count = 0
    /\ \E m \in ArbitrateMessages :
          /\ LET ex == ml_extract_flow_features(flow_stats, m.pkt, m.in_port,
                                                m.pkt.eth.src, m.pkt.eth.dst, now)
                 d == ml_decide(counters, model_loaded, bundle, ex.features,
                                bundle.behaviour)
             IN  HandlePacketIn(m, ex, d)
          /\ inp' = [op |-> "packet_in", msg |-> m]
    /\ UNCHANGED <<ctrl, model_loaded, bundle, now>>

NextArbitrate == ArbitratePacketIn

SpecArbitrate == InitArbitrate /\ [][NextArbitrate]_vars

(***************************************************************************)
(* Run-all classifier (second class body of enhanced_rule_controller.py)   *)
(***************************************************************************)

\* A result pair (label, confidence) of a stage, and a candidate of
\* classify_traffic: the pair with the stage's method tag.
Pair(c, conf) == [class |-> c, conf |-> conf]

legacy_http_patterns ==
    http_patterns \cup
        { <<"U", "s", "e", "r", "-", "A", "g", "e", "n", "t", ":">>,
          <<"C", "o", "n", "t", "e", "n", "t", "-", "T", "y", "p", "e", ":">> }

smtp_pattern == <<"S", "M", "T", "P">>

mail_pattern == <<"M", "A", "I", "L">>

\* attempt_dpi_classification of the second class body: the pair and the
\* counters after the call.  A pkt_data that is no byte string makes
\* `pattern in pkt_data` raise, which the bare except turns into ('unknown', 0.0).
legacy_attempt_dpi_classification(self, pkt_data) ==
    LET self1 == [self EXCEPT !.dpi_attempts = @ + 1]
        hit == [self1 EXCEPT !.dpi_successes = @ + 1]
    IN  IF pkt_data.kind = "none"
        THEN [ret |-> Pair("unknown", 0), self |-> self1]
        ELSE IF \E pattern \in legacy_http_patterns : Contains(pattern, pkt_data)
        THEN [ret |-> Pair("web_traffic", 900), self |-> hit]
        ELSE IF Contains(ssh_pattern, pkt_data)
        THEN [ret |-> Pair("ssh_traffic", 800), self |-> hit]
        ELSE IF Contains(smtp_pattern, pkt_data) \/ Contains(mail_pattern, pkt_data)
        THEN [ret |-> Pair("email_traffic", 700), self |-> hit]
        ELSE [ret |-> Pair("unknown", 0), self |-> self1]

\* port_based_classification of the second class body: a table for TCP and
\* a table for UDP.  range(a, b) holds a and not b.
legacy_port_based_classification(tcp_pkt, udp_pkt) ==
    IF tcp_pkt.present
    THEN LET src_port == tcp_pkt.src_port
             dst_port == tcp_pkt.dst_port
         IN  IF dst_port \in {80, 443, 8080, 8443} \/ src_port \in {80, 443, 8080, 8443}
             THEN Pair("web_traffic", 800)
             ELSE IF dst_port = 22 \/ src_port = 22
             THEN Pair("ssh_traffic", 700)
             ELSE IF dst_port \in {25, 587, 993, 995} \/ src_port \in {25, 587, 993, 995}
             THEN Pair("email_traffic", 600)
             ELSE IF dst_port \in {20, 21} \/ src_port \in {20, 21}
             THEN Pair("ftp_traffic", 500)
             ELSE IF dst_port \in 27015..27029 \/ src_port \in 27015..27029
             THEN Pair("gaming_traffic", 800)
             ELSE Pair("unknown", 0)
    ELSE IF udp_pkt.present
    THEN LET dst_port == udp_pkt.dst_port
             src_port == udp_pkt.src_port
         IN  IF dst_port = 53 \/ src_port = 53
             THEN Pair("dns_traffic", 900)
             ELSE IF dst_port \in 16384..32767 \/ src_port \in 16384..32767
             THEN Pair("voip_traffic", 700)
             ELSE Pair("unknown", 0)
    ELSE Pair("unknown", 0)

\* statistical_flow_analysis: the length rules first; a packet of medium
\* length goes on to the TCP flag rules or, without TCP header, the UDP rule.
statistical_flow_analysis(pkt, tcp_pkt, udp_pkt) ==
    LET pkt_len == DataLen(pkt.data)
    IN  IF pkt_len <= 64
        THEN Pair("control_traffic", 600)
        ELSE IF pkt_len >= 1400
        THEN Pair("bulk_traffic", 400)
        ELSE IF tcp_pkt.present
        THEN IF BitSet(tcp_pkt.bits, 2)
             THEN Pair("connection_setup", 700)
             ELSE IF tcp_pkt.bits = 16
             THEN Pair("interactive_traffic", 600)
             ELSE Pair("unknown", 0)
        ELSE IF udp_pkt.present
        THEN Pair("realtime_traffic", 500)
        ELSE Pair("unknown", 0)

protocol_based_classification(pkt) ==
    IF ~pkt.ipv4.present
    THEN Pair("non_ip", 100)
    ELSE IF pkt.ipv4.proto = 6
    THEN Pair("tcp_traffic", 500)
    ELSE IF pkt.ipv4.proto = 17
    THEN Pair("udp_traffic", 400)
    ELSE IF pkt.ipv4.proto = 1
    THEN Pair("icmp_traffic", 800)
    ELSE Pair("other_protocol", 200)

\* max(classifications, key=lambda x: x[1]): the list is read from the left
\* and the item kept is replaced only by one of greater confidence.
RECURSIVE MaxByConf(_, _, _)
MaxByConf(classifications, i, best) ==
    IF i > Len(classifications) THEN best
    ELSE MaxByConf(classifications, i + 1,
                   IF classifications[i].conf > best.conf THEN classifications[i]
                   ELSE best)

\* The candidate list of classify_traffic: a stage's pair is appended when
\* its confidence is above 0.0, the protocol stage's pair always.
Candidates(dpi, port, stat, proto) ==
    (IF dpi.conf > 0 THEN <<Triple(dpi.class, dpi.conf, "DPI")>> ELSE <<>>)
        \o (IF port.conf > 0 THEN <<Triple(port.class, port.conf, "Port")>> ELSE <<>>)
        \o (IF stat.conf > 0 THEN <<Triple(stat.class, stat.conf, "Statistical")>>
            ELSE <<>>)
        \o <<Triple(proto.class, proto.conf, "Protocol")>>

\* A run-all classifier that reads the candidate list from the right, so
\* that of two candidates of equal confidence the later stage's is kept.
Mutant_classify_traffic_last_wins(self, pkt, pkt_data) ==
    LET dpi == legacy_attempt_dpi_classification(self, pkt_data)
        port == legacy_port_based_classification(pkt.tcp, pkt.udp)
        stat == statistical_flow_analysis(pkt, pkt.tcp, pkt.udp)
        proto == protocol_based_classification(pkt)
        classifications == Candidates(dpi.ret, port, stat, proto)
        n == Len(classifications)
        reversed == [i \in 1..n |-> classifications[n + 1 - i]]
        best == MaxByConf(reversed, 2, reversed[1])
    IN  [ret |-> Pair(best.class, best.conf), method |-> best.method,
         classifications |-> classifications,
         stages |-> <<"dpi", "port", "stat", "protocol">>, self |-> dpi.self]

\* classify_traffic: the pair returned, the method of the candidate chosen,
\* the candidate list, the stages whose function was called (in call order)
\* and the counters after the call.  The list is never empty, so the last
\* line of the method, `return 'unknown', 0.0`, is not reached.
classify_traffic(self, pkt, pkt_data) ==
    LET dpi == legacy_attempt_dpi_classification(self, pkt_data)
        port == legacy_port_based_classification(pkt.tcp, pkt.udp)
        stat == statistical_flow_analysis(pkt, pkt.tcp, pkt.udp)
        proto == protocol_based_classification(pkt)
        classifications == Candidates(dpi.ret, port, stat, proto)
        best == MaxByConf(classifications, 2, classifications[1])
    IN  [ret |-> Pair(best.class, best.conf), method |-> best.method,
         classifications |-> classifications,
         stages |-> <<"dpi", "port", "stat", "protocol">>, self |-> dpi.self]

(***************************************************************************)
(* SpecRunAll: classify_traffic of the run-all variant called on one       *)
(* packet.                                                                 *)
(***************************************************************************)

\* Leading bytes of a frame: a request line, a header line, a banner, mail
\* commands, and bytes that hold no signature.
RunAllLeads ==
    { <<"G", "E", "T", " ", "/">>,
      <<"U", "s", "e", "r", "-", "A", "g", "e", "n", "t", ":">>,
      <<"S", "S", "H", "-", "2">>,
      <<"M", "A", "I", "L">>,
      <<"S", "M", "T", "P">>,
      <<"#", "#", "#">> }

\* Frame lengths: at and next to the thresholds 64 and 1400 of the
\* statistical stage.
RunAllLengths == {60, 64, 65, 1399, 1400}

\* The header decodings of a frame from h1 to h2 holding data: no IP header,
\* ICMP, another IP protocol (47), TCP between every port pair and flag
\* combination tried, UDP to every port tried.
RunAllPackets(data) ==
    LET ip(proto) == Ipv4Header(proto, DataLen(data) - 14)
        mk(i, t, u, c) == Packet("h1", "h2", "IP", i, t, u, c, data)
    IN  { Packet("h1", "h2", "ARP", NoHeader, NoHeader, NoHeader, NoHeader, data),
          mk(ip(1), NoHeader, NoHeader, IcmpHeader),
          mk(ip(47), NoHeader, NoHeader, NoHeader) }
          \cup
        { mk(ip(6), TcpHeader(40000, dp, bits), NoHeader, NoHeader) :
            dp \in {80, 22, 25, 21, 53, 27015, 27029, 27030, 40001},
            bits \in {2, 16, 24} }
          \cup
        { mk(ip(6), TcpHeader(22, 40000, 18), NoHeader, NoHeader) }
          \cup
        { mk(ip(17), NoHeader, UdpHeader(40000, dp, DataLen(data) - 34), NoHeader) :
            dp \in {53, 16384, 32767, 32768, 40001} }

InitRunAll ==
    /\ Constructed("legacy")
    /\ model_loaded = FALSE
    /\ bundle = NoBundle
    /\ \E lead \in RunAllLeads, l \in RunAllLengths :
          \E p \in RunAllPackets(Bytes(lead, l - Len(lead))) :
             inp = [op |-> "classify", pkt |-> p, pkt_data |-> p.data]

\* classify_traffic on the packet: it changes the two signature counters.
RunAllClassify ==
    /\ ctrl = "legacy"
    /\ inp.op = "classify"
    /\ call = NoCall
    /\ LET r == classify_traffic(counters, inp.pkt, inp.pkt_data)
       IN  /\ counters' = r.self
           /\ call' = [op |-> "classify", ret |-> r.ret, method |-> r.method,
                       classifications |-> r.classifications, stages |-> r.stages]
    /\ UNCHANGED <<ctrl, mac_to_port, flow_stats, model_loaded, bundle, now, inp, sent>>

NextRunAll == RunAllClassify

SpecRunAll == InitRunAll /\ [][NextRunAll]_vars

(***************************************************************************)
(* SpecStatistical: statistical_classification of the rule-based           *)
(* controller called on one feature dict.                                  *)
(***************************************************************************)

\* Mean packet sizes and byte rates at, next to and far from the thresholds
\* of the stage (1000 and 1200; 100000 and 500000), as quotients.
StatSizes ==
    { RatOfInt(0), Rat(1000, 1), Rat(2001, 2), Rat(1200, 1), Rat(2401, 2),
      Rat(1500, 1), Rat(9000, 1) }

StatRates ==
    { RatOfInt(0), Rat(100000, 1), Rat(100001, 1), Rat(500000, 1),
      Rat(1000001, 2), Rat(600000, 1), Rat(10000000, 1) }

\* The dicts statistical_classification is tried on: every packet length,
\* mean size, byte rate and protocol type, and dicts without the statistics.
StatFeatures ==
    { ("packet_length" :> l) @@ StatDict(<<a, b>>) @@ ProtoDict(t) :
        l \in {60, 64, 65, 1500}, a \in StatSizes, b \in StatRates,
        t \in {NoneLabel, "TCP", "UDP", "ICMP"} }
      \cup
    { ("packet_length" :> l) @@ ProtoDict(t) :
        l \in {60, 64, 65, 1500}, t \in {NoneLabel, "TCP", "UDP", "ICMP"} }

InitStatistical ==
    /\ Constructed("rule")
    /\ model_loaded = FALSE
    /\ bundle = NoBundle
    /\ \E f \in StatFeatures : inp = [op |-> "statistical", features |-> f]

\* statistical_classification reads its argument and no field of the
\* controller, and writes none.
StatClassify ==
    /\ ctrl = "rule"
    /\ inp.op = "statistical"
    /\ call' = [op |-> "statistical", ret |-> statistical_classification(inp.features)]
    /\ UNCHANGED <<ctrl, mac_to_port, flow_stats, counters, model_loaded, bundle, now,
                   inp, sent>>

NextStatistical == StatClassify

SpecStatistical == InitStatistical /\ [][NextStatistical]_vars

(***************************************************************************)
(* Claims about the priority mappers (SpecPriority)                        *)
(***************************************************************************)

\* C1: for every class label, in a tier or not, and every confidence in
\* [0,1], the priority a mapper returns is an integer in [0, 3500].
C1_PriorityInRange ==
    call.op = "get_priority" => call.priority \in 0..3500

\* C1 witness: the highest tier at confidence 1.0 reaches the ceiling.
C1_Witness ==
    /\ ctrl = "rule"
    /\ call.op = "get_priority"
    /\ inp.traffic_class = "DNS"
    /\ inp.confidence = ConfScale
    /\ call.priority = 3500

\* The tier base the specification gives a label under controller c.
C2_Base(c, label) ==
    LET high == IF c = "rule" THEN rule_high_priority_classes
                ELSE ml_high_priority_classes
        medium == IF c = "rule" THEN rule_medium_priority_classes
                  ELSE ml_medium_priority_classes
    IN  IF label \in high THEN 3000 ELSE IF label \in medium THEN 2000 ELSE 1000

\* C2: the rule-based and the ML mapper return exactly
\* min(base + floor(confidence * 500), 3500), base 3000 / 2000 / 1000 for a
\* high / medium / low tier class and 1000 for a class of no tier.
C2_PriorityFormula ==
    (call.op = "get_priority" /\ ctrl \in {"rule", "ml"}) =>
        LET floor == (inp.confidence * 500) \div ConfScale
            sum == C2_Base(ctrl, inp.traffic_class) + floor
        IN  call.priority = (IF sum < 3500 THEN sum ELSE 3500)

\* C2 witness: a class of no tier at confidence 0.301 gets 1000 + 150.
C2_Witness ==
    /\ ctrl = "rule"
    /\ call.op = "get_priority"
    /\ inp.traffic_class = "unknown"
    /\ inp.confidence = 301
    /\ call.priority = 1150

\* C22 as stated: the mapper of the rule-based controller and the mapper of
\* the model-based controller are the same function: on every class label and
\* every confidence in [0,1] the priority either returns is the priority the
\* other returns.
C22_Original ==
    (call.op = "get_priority" /\ ctrl \in {"rule", "ml"}) =>
        /\ call.priority =
               get_priority_from_rule_classification(inp.traffic_class, inp.confidence)
        /\ call.priority =
               get_priority_from_ml_classification(inp.traffic_class, inp.confidence)

\* C22 witness: the model-based mapper gives 'ICMP' at 0.8 the default base,
\* 1400 in all, where the rule-based mapper gives it the high tier, 3400.
C22_Witness ==
    /\ call.op = "get_priority"
    /\ ctrl = "ml"
    /\ inp.traffic_class = "ICMP"
    /\ inp.confidence = 800
    /\ call.priority = 1400
    /\ get_priority_from_rule_classification(inp.traffic_class, inp.confidence) = 3400

(***************************************************************************)
(* Claims about rule_based_classify_traffic (SpecClassify)                 *)
(***************************************************************************)

\* C3: the stages run in the order signature, port table, statistical,
\* protocol fallback; the result is that of the first stage whose confidence
\* strictly exceeds its threshold (0.7, 0.5, 0.4), with that stage's method
\* tag, and no later stage is called; the protocol fallback is returned only
\* when none of the three is accepted.
C3_CascadeOrder ==
    call.op = "rule_classify" =>
        LET sig == attempt_dpi_classification(counters, inp.pkt_data).ret
            port == port_based_classification(inp.raw_features)
            stat == statistical_classification(inp.raw_features)
            a1 == sig.conf > 700
            a2 == port.conf > 500
            a3 == stat.conf > 400
        IN  /\ a1 => (call.ret = sig /\ call.stages = <<"dpi">>)
            /\ (~a1 /\ a2) => (call.ret = port /\ call.stages = <<"dpi", "port">>)
            /\ (~a1 /\ ~a2 /\ a3) =>
                   (call.ret = stat /\ call.stages = <<"dpi", "port", "stat">>)
            /\ (~a1 /\ ~a2 /\ ~a3) =>
                   /\ call.ret.method \in {"Protocol-fallback", "No-classification"}
                   /\ call.stages = <<"dpi", "port", "stat", "protocol">>
            /\ call.ret.method \in {"Protocol-fallback", "No-classification"} =>
                   (~a1 /\ ~a2 /\ ~a3)

\* C3 witness: the port stage answers VOIP at exactly 0.5, is not accepted,
\* and the statistical stage's result is returned.
C3_Witness ==
    /\ call.op = "rule_classify"
    /\ port_based_classification(inp.raw_features) = Triple("VOIP", 500, "Port-based")
    /\ call.stages = <<"dpi", "port", "stat">>
    /\ call.ret = Triple("Chat", 500, "Statistical")

\* C4: the pipeline is total: for every payload (None included) and every
\* feature vector, also one without ports, protocol type and flow statistics,
\* a call returns, with a label that is not None and a confidence in [0,1].
C4_Total ==
    /\ (inp.op = "rule_classify" /\ counters.classification_count < MaxCalls)
           => ENABLED RuleClassify
    /\ call.op = "rule_classify" =>
           (call.ret.class # NoneLabel /\ call.ret.conf \in 0..ConfScale)

\* C4 witness: None as payload and a feature vector holding the packet length
\* alone still give ('unknown', 0.1).
C4_Witness ==
    /\ call.op = "rule_classify"
    /\ inp.pkt_data = NoneData
    /\ DOMAIN inp.raw_features = {"packet_length"}
    /\ call.ret = Triple("unknown", 100, "No-classification")

\* C7: two calls with the identical (feature vector, payload) return the
\* identical (label, confidence, method), whatever the controller's counters
\* are at either call.
C7_SameInputSameResult ==
    [][(call.op = "rule_classify" /\ call'.op = "rule_classify" /\ inp' = inp)
          => call'.ret = call.ret]_vars

\* C7 witness: a second call on the same input, in a controller whose
\* signature counters differ from its attempt counters.
C7_Witness ==
    /\ call.op = "rule_classify"
    /\ call.nth >= 2
    /\ counters.dpi_successes # counters.dpi_attempts
    /\ counters.dpi_successes > 0

\* C11: for every packet with destination port 53 whose payload matches no
\* signature (None included), whatever its source port, the port table
\* returns 'DNS' at 0.9, the pipeline returns that triple after the signature
\* and port stages, and the priority mapped from it is 3450.
C11_DnsPort ==
    (/\ call.op = "rule_classify"
     /\ Get(inp.raw_features, "dst_port", 0) = 53
     /\ attempt_dpi_classification(counters, inp.pkt_data).ret.class = NoneLabel) =>
        /\ port_based_classification(inp.raw_features) = Triple("DNS", 900, "Port-based")
        /\ call.ret = Triple("DNS", 900, "Port-based")
        /\ call.stages = <<"dpi", "port">>
        /\ get_priority_from_rule_classification(call.ret.class, call.ret.conf) = 3450

\* C11 witness: opaque bytes from port 443 to port 53.
C11_Witness ==
    /\ call.op = "rule_classify"
    /\ inp.pkt_data = Bytes(<<"#", "#", "#">>, 0)
    /\ Get(inp.raw_features, "src_port", 0) = 443
    /\ Get(inp.raw_features, "dst_port", 0) = 53
    /\ call.stages = <<"dpi", "port">>
    /\ call.ret.class = "DNS"

\* r = k for a quotient r and an integer k
RatIs(r, k) == r.n = k * r.d

\* C12 as stated: with mean packet size 1500 and byte rate 600000, no
\* signature match and no port match, the statistical stage returns
\* 'File-Transfer' or another bulk class at confidence 0.6 and the pipeline
\* returns that triple.
C12_Original ==
    (/\ call.op = "rule_classify"
     /\ "avg_packet_size" \in DOMAIN inp.raw_features
     /\ RatIs(inp.raw_features["avg_packet_size"], 1500)
     /\ RatIs(inp.raw_features["byte_rate"], 600000)
     /\ attempt_dpi_classification(counters, inp.pkt_data).ret.class = NoneLabel
     /\ port_based_classification(inp.raw_features).class = NoneLabel) =>
        LET stat == statistical_classification(inp.raw_features)
        IN  /\ stat.class \in {"File-Transfer", "P2P", "Bulk"}
            /\ stat.conf = 600
            /\ call.ret = stat

\* C12 witness: on that input the pipeline returns 'Video-Streaming' at 0.6,
\* the first statistical rule, whose condition the bulk rule's implies.
C12_Witness ==
    /\ call.op = "rule_classify"
    /\ "avg_packet_size" \in DOMAIN inp.raw_features
    /\ RatIs(inp.raw_features["avg_packet_size"], 1500)
    /\ RatIs(inp.raw_features["byte_rate"], 600000)
    /\ call.stages = <<"dpi", "port", "stat">>
    /\ call.ret = Triple("Video-Streaming", 600, "Statistical")

\* C10: for every payload that contains 'GET /' the signature stage reports
\* 'Browsing' with confidence at least 0.7, and the pipeline returns that
\* result after calling the signature stage alone.
C10_GetRequest ==
    (/\ call.op = "rule_classify"
     /\ inp.pkt_data.kind = "bytes"
     /\ Contains(<<"G", "E", "T", " ", "/">>, inp.pkt_data)) =>
        LET sig == attempt_dpi_classification(counters, inp.pkt_data).ret
        IN  /\ sig.class = "Browsing"
            /\ sig.conf >= 700
            /\ call.ret = sig
            /\ call.stages = <<"dpi">>

\* C10 witness: 'GET /' inside a longer payload, on a packet to port 53 that
\* the port table would have called DNS.
C10_Witness ==
    /\ call.op = "rule_classify"
    /\ inp.pkt_data = Bytes(<<"x", "G", "E", "T", " ", "/", "y">>, 0)
    /\ Get(inp.raw_features, "dst_port", 0) = 53
    /\ call.ret = Triple("Browsing", 900, "DPI")

\* The call classifies an ICMP packet without transport ports whose payload
\* holds no signature.
PlainIcmp ==
    /\ call.op = "rule_classify"
    /\ Get(inp.raw_features, "protocol_type", NoneLabel) = "ICMP"
    /\ {"src_port", "dst_port"} \cap DOMAIN inp.raw_features = {}
    /\ attempt_dpi_classification(FreshCounters, inp.pkt_data).ret.class = NoneLabel

\* C23 as stated: every ICMP packet whose payload matches no signature and
\* that has no transport ports is classified 'ICMP', whatever its length and
\* its flow statistics.
C23_Original ==
    PlainIcmp => call.ret.class = "ICMP"

\* C23 witness: an ICMP packet of 64 bytes without flow statistics is
\* classified 'Chat' at 0.5 by the small-packet rule, which the statistical
\* stage tries before its ICMP rule.
C23_Witness ==
    /\ PlainIcmp
    /\ inp.raw_features["packet_length"] = 64
    /\ "avg_packet_size" \notin DOMAIN inp.raw_features
    /\ call.stages = <<"dpi", "port", "stat">>
    /\ call.ret = Triple("Chat", 500, "Statistical")

\* The call classifies a packet whose payload holds no signature and whose
\* ports the port table maps to 'VOIP': one of them lies in 16384..32768 and
\* no earlier entry of the table matches.
VoipPorts ==
    /\ call.op = "rule_classify"
    /\ attempt_dpi_classification(FreshCounters, inp.pkt_data).ret.class = NoneLabel
    /\ port_based_classification(inp.raw_features).class = "VOIP"

\* C25 as stated: such a packet is classified 'VOIP' by the pipeline, at the
\* port-table stage, and its priority is in the high tier.
C25_Original ==
    VoipPorts =>
        /\ call.ret.class = "VOIP"
        /\ call.stages = <<"dpi", "port">>
        /\ get_priority_from_rule_classification(call.ret.class, call.ret.conf) >= 3000

\* C25 witness: a UDP packet of 65 bytes from port 40000 to port 16384,
\* without flow statistics: the port table says 'VOIP' at 0.5, the pipeline
\* goes on through every stage and returns 'unknown' at 0.1, priority 1050.
C25_Witness ==
    /\ VoipPorts
    /\ inp.raw_features["dst_port"] = 16384
    /\ inp.raw_features["packet_length"] = 65
    /\ Get(inp.raw_features, "protocol_type", NoneLabel) = "UDP"
    /\ port_based_classification(inp.raw_features).conf = 500
    /\ call.stages = <<"dpi", "port", "stat", "protocol">>
    /\ call.ret = Triple("unknown", 100, "No-classification")
    /\ get_priority_from_rule_classification(call.ret.class, call.ret.conf) = 1050

(***************************************************************************)
(* Claims about the packet-in handlers (Spec)                              *)
(***************************************************************************)

\* The last step was a packet-in whose packet the handler classified.
Classified == call.op = "packet_in" /\ call.kind = "classified"

\* Every flow-mod a handler sends carries a priority in [0, 3500].
InstalledPriorityInRange ==
    \A i \in DOMAIN sent :
        sent[i].type = "flow_mod" => sent[i].priority \in 0..3500

CountOf(fs, k) == IF k \in DOMAIN fs THEN fs[k].packet_count ELSE 0

BytesOf(fs, k) == IF k \in DOMAIN fs THEN fs[k].byte_count ELSE 0

\* C5: for every flow key, packet_count and byte_count never decrease and no
\* key leaves the table; a step that extracts features adds exactly 1 to the
\* packet_count and the packet's length to the byte_count of the packet's
\* flow key and leaves every other flow alone; no other step touches the table.
C5_CountsGrow ==
    [][/\ \A k \in DOMAIN flow_stats :
             /\ k \in DOMAIN flow_stats'
             /\ flow_stats'[k].packet_count >= flow_stats[k].packet_count
             /\ flow_stats'[k].byte_count >= flow_stats[k].byte_count
       /\ IF now' = now /\ call'.kind = "classified"
          THEN LET pkt == inp'.msg.pkt
                   k == FlowKey(pkt.eth.src, pkt.eth.dst)
               IN  /\ call'.flow_key = k
                   /\ CountOf(flow_stats', k) = CountOf(flow_stats, k) + 1
                   /\ BytesOf(flow_stats', k) = BytesOf(flow_stats, k) + DataLen(pkt.data)
                   /\ DOMAIN flow_stats' = DOMAIN flow_stats \cup {k}
                   /\ \A j \in DOMAIN flow_stats \ {k} : flow_stats'[j] = flow_stats[j]
          ELSE flow_stats' = flow_stats]_vars

\* C5 witness: the second packet of a flow, 1500 bytes after 60 or 60 bytes
\* after 1500.
C5_Witness ==
    /\ Classified
    /\ flow_stats[call.flow_key].packet_count = 2
    /\ flow_stats[call.flow_key].byte_count = 1560

\* The header-derived fields of the feature dict of controller c.
NetworkKeys == {"ip_proto", "ip_ttl", "ip_len"}

PortKeys == {"src_port", "dst_port"}

FlagKeys(c) ==
    {"tcp_flags"} \cup
        (IF c = "ml"
         THEN {"tcp_fin", "tcp_syn", "tcp_rst", "tcp_psh", "tcp_ack", "tcp_urg"}
         ELSE {})

HeaderKeys(c) == NetworkKeys \cup PortKeys \cup FlagKeys(c)

\* The feature dict with 0 written for every header-derived field it lacks.
ZeroFilled(c, f) == f @@ [k \in HeaderKeys(c) |-> 0]

ModelUnavailable ==
    \/ ~model_loaded
    \/ bundle.behaviour.kind \in {"prepare_fails", "scaler_raises", "predict_raises"}

\* The fallback triple as the handler keeps it.
TaggedFallback(f) ==
    LET fb == fallback_classify_traffic(f)
    IN  Triple(fb.class, fb.conf, FallbackTag(fb.method))

\* C8: when the bundle is not loaded, feature preparation fails, or the
\* scaler or the scorer raises, no exception reaches the packet-in handler,
\* the handler's decision is the triple of fallback_classify_traffic with its
\* method prefixed 'Fallback after ML: ', and the flow-mod it sends carries
\* the priority of that triple.
C8_FallbackWhenUnavailable ==
    (Classified /\ ctrl = "ml" /\ ModelUnavailable) =>
        /\ call.raised = FALSE
        /\ call.ret = TaggedFallback(call.features)
        /\ call.priority =
               get_priority_from_ml_classification(call.ret.class, call.ret.conf)
        /\ sent # <<>>
        /\ sent[1].type = "flow_mod"
        /\ sent[1].priority = call.priority

\* C8 witness: a loaded bundle whose scaler raises, on a packet to port 53.
C8_Witness ==
    /\ Classified
    /\ ctrl = "ml"
    /\ model_loaded
    /\ bundle.scaler
    /\ bundle.behaviour.kind = "scaler_raises"
    /\ call.steps = <<"prepare", "scale">>
    /\ call.ret = Triple("DNS", 800, "Fallback after ML: Port-based fallback")

\* C9: with the bundle loaded and the scorer answering, a maximum probability
\* below 0.3 makes the handler's decision the tagged fallback triple, and one
\* of 0.3 or more makes it the scorer's class and probability unchanged.
C9_LowConfidenceFallsBack ==
    (Classified /\ ctrl = "ml" /\ model_loaded /\ bundle.behaviour.kind = "ok") =>
        LET answer == bundle.behaviour
        IN  /\ IF answer.conf < 300
               THEN call.ret = TaggedFallback(call.features)
               ELSE /\ call.ret.class = answer.class
                    /\ call.ret.conf = answer.conf
                    /\ call.ret.method = "ML prediction"
            /\ call.priority =
                   get_priority_from_ml_classification(call.ret.class, call.ret.conf)

\* C9 witness: the scorer says 'Unknown' at 0.15 for a packet to port 80; the
\* decision is the fallback's 'Browsing' at 0.7.
C9_Witness ==
    /\ Classified
    /\ ctrl = "ml"
    /\ bundle.behaviour = Answer("Unknown", 150)
    /\ call.steps[Len(call.steps)] = "predict"
    /\ call.ret = Triple("Browsing", 700, "Fallback after ML: Port-based fallback")

\* A step in which a handler extracts the features of a packet.
Observes == now' = now /\ call'.kind = "classified"

\* C13: the feature dict of every classified packet holds inter_arrival_time;
\* for the first packet of a flow key it is exactly 0, and for a later packet
\* it is the time since the flow's previous packet, which is not negative.
C13_InterArrival ==
    [][Observes =>
          LET k == call'.flow_key
              f == call'.features
          IN  /\ "inter_arrival_time" \in DOMAIN f
              /\ IF k \in DOMAIN flow_stats
                 THEN /\ f["inter_arrival_time"] = now - flow_stats[k].last_packet_time
                      /\ f["inter_arrival_time"] >= 0
                 ELSE f["inter_arrival_time"] = 0]_vars

\* C13 witness: the first packet of a flow in the rule-based controller,
\* after the clock has advanced.
C13_Witness ==
    /\ Classified
    /\ ctrl = "rule"
    /\ now > StartTime
    /\ flow_stats[call.flow_key].packet_count = 1
    /\ call.features["inter_arrival_time"] = 0

\* The step observes a packet whose direction is the reverse of the packet
\* the previous step observed.
ObservesReverse ==
    /\ Classified
    /\ Observes
    /\ inp'.msg.pkt.eth.src = inp.msg.pkt.eth.dst
    /\ inp'.msg.pkt.eth.dst = inp.msg.pkt.eth.src

\* C15 as stated: a packet from A to B and the next packet from B to A map to
\* the same flow key and update the same FlowState, whose packet_count is 2
\* after one packet in each direction.
C15_Original ==
    [][(ObservesReverse /\ counters.classification_count = 1) =>
          /\ call'.flow_key = call.flow_key
          /\ flow_stats'[call'.flow_key].packet_count = 2]_vars

\* C15: flow keys are direction-specific.  The key of a packet is the pair
\* (source, destination) in that order; the key of the reverse direction is
\* another key, whose FlowState a packet neither creates nor changes; after
\* one packet in each direction each of the two flows has packet_count 1.
C15_DirectionSpecific ==
    [][Observes =>
          LET pkt == inp'.msg.pkt
              k == call'.flow_key
              rev == <<pkt.eth.dst, pkt.eth.src>>
          IN  /\ k = <<pkt.eth.src, pkt.eth.dst>>
              /\ k # rev
              /\ k \in DOMAIN flow_stats'
              /\ IF rev \in DOMAIN flow_stats
                 THEN rev \in DOMAIN flow_stats' /\ flow_stats'[rev] = flow_stats[rev]
                 ELSE rev \notin DOMAIN flow_stats'
              /\ (ObservesReverse /\ counters.classification_count = 1) =>
                     /\ flow_stats'[k].packet_count = 1
                     /\ flow_stats'[rev].packet_count = 1]_vars

\* C15 witness: one packet from h2 to h1 and one from h1 to h2 have been
\* observed, and the table holds two flows of one packet each.
C15_Witness ==
    /\ Classified
    /\ counters.classification_count = 2
    /\ DOMAIN flow_stats = {<<"h1", "h2">>, <<"h2", "h1">>}
    /\ \A k \in DOMAIN flow_stats : flow_stats[k].packet_count = 1

\* C16 as stated: in the model-based controller, whenever the flow's
\* inter-arrival or packet-size window holds at most one sample, the mean and
\* the standard deviation reported for that window are both 0.
C16_Original ==
    (Classified /\ ctrl = "ml") =>
        LET st == flow_stats[call.flow_key]
            f == call.features
        IN  /\ Len(st.inter_arrival_times) <= 1 =>
                   (RatIs(f["avg_inter_arrival"], 0) /\ RatIs(f["std_inter_arrival"], 0))
            /\ Len(st.packet_sizes) <= 1 =>
                   (RatIs(f["avg_packet_size"], 0) /\ RatIs(f["std_packet_size"], 0))

\* C16: in the model-based controller a window of at most one sample gives
\* mean 0 and standard deviation 0 for the inter-arrival times, and standard
\* deviation 0 but mean equal to the packet's length, the one sample, for
\* the packet sizes; the rule-based controller leaves avg_inter_arrival and
\* avg_packet_size out of the dict for such a window.
C16_SingleSampleWindow ==
    Classified =>
        LET st == flow_stats[call.flow_key]
            f == call.features
        IN  IF ctrl = "ml"
            THEN /\ Len(st.inter_arrival_times) <= 1 =>
                        /\ RatIs(f["avg_inter_arrival"], 0)
                        /\ RatIs(f["std_inter_arrival"], 0)
                 /\ Len(st.packet_sizes) <= 1 =>
                        /\ RatIs(f["std_packet_size"], 0)
                        /\ RatIs(f["avg_packet_size"], DataLen(inp.msg.pkt.data))
                        /\ RatIs(f["avg_packet_size"], st.packet_sizes[1])
            ELSE /\ Len(st.inter_arrival_times) <= 1 =>
                        "avg_inter_arrival" \notin DOMAIN f
                 /\ Len(st.packet_sizes) <= 1 => "avg_packet_size" \notin DOMAIN f

\* C16 witness: the first packet of a flow in the model-based controller,
\* 1500 bytes long, reported with mean packet size 1500.
C16_Witness ==
    /\ Classified
    /\ ctrl = "ml"
    /\ flow_stats[call.flow_key].packet_sizes = <<1500>>
    /\ flow_stats[call.flow_key].inter_arrival_times = <<0>>
    /\ call.features["avg_packet_size"] = RatOfInt(1500)
    /\ call.features["std_packet_size"] = RatOfInt(0)

\* C18: no packet event changes model_loaded or the bundle: what the load at
\* construction left stays, so a failed load is never retried; and in a
\* controller whose load failed every classification runs no step of a
\* bundle and ends in the tagged fallback triple.
C18_LoadedOnce ==
    [][/\ model_loaded' = model_loaded
       /\ bundle' = bundle
       /\ (Observes /\ ctrl = "ml" /\ ~model_loaded) =>
              /\ call'.steps = <<>>
              /\ call'.raised = FALSE
              /\ call'.ret = TaggedFallback(call'.features)]_vars

\* C18 witness: the second classification of a controller whose load failed
\* after it had assigned the scaler, still not loaded and still by the fallback.
C18_Witness ==
    /\ Classified
    /\ ctrl = "ml"
    /\ ~model_loaded
    /\ bundle.scaler
    /\ counters.classification_count = 2
    /\ counters.classification_successes = 0
    /\ call.ret = TaggedFallback(call.features)

\* C20: a step that observes a packet of flow key k leaves the FlowState of
\* every other key as it was (counters, start time, last packet time, both
\* windows) and adds no key but k; no step removes a key from the table.
C20_OtherFlowsUnchanged ==
    [][/\ DOMAIN flow_stats \subseteq DOMAIN flow_stats'
       /\ Observes =>
              /\ \A j \in DOMAIN flow_stats \ {call'.flow_key} :
                     flow_stats'[j] = flow_stats[j]
              /\ DOMAIN flow_stats' = DOMAIN flow_stats \cup {call'.flow_key}
              /\ flow_stats'[call'.flow_key] # NewFlowStat(now)]_vars

\* C20 witness: a packet observed on one flow while the table holds another
\* flow, whose last packet is older.
C20_Witness ==
    /\ Classified
    /\ flow_stats[call.flow_key].last_packet_time = now
    /\ \E j \in DOMAIN flow_stats \ {call.flow_key} :
          /\ flow_stats[j].last_packet_time < now
          /\ flow_stats[j].packet_count = 1

\* The decision of the controller's own classifier on feature dict f of
\* packet pkt, in the state before the step.
DecisionOn(pkt, f) ==
    IF ctrl = "rule" THEN rule_decide(counters, pkt, f)
    ELSE ml_decide(counters, model_loaded, bundle, f, bundle.behaviour)

\* The priority mapper of the controller.
MapperOf(c, traffic_class, confidence) ==
    IF c = "rule" THEN get_priority_from_rule_classification(traffic_class, confidence)
    ELSE get_priority_from_ml_classification(traffic_class, confidence)

PrescribedSteps(bndl) ==
    <<"prepare">> \o (IF bndl.scaler THEN <<"scale">> ELSE <<>>)
        \o (IF bndl.feature_selector THEN <<"select">> ELSE <<>>)
        \o <<"predict">>

\* C24 as stated: with a loaded bundle whose objects raise nothing, the steps
\* taken on the feature array are, in order, the projection, the scaler if
\* the bundle has one, the selector if the bundle has one, and the scoring;
\* the selector is never skipped when present.
C24_Original ==
    (Classified /\ ctrl = "ml" /\ model_loaded /\ bundle.behaviour.kind = "ok") =>
        call.steps = PrescribedSteps(bundle)

\* C24 witness: a bundle with a scaler and a selector answers a packet; the
\* array was projected, scaled and scored, and the selector never applied.
C24_Witness ==
    /\ Classified
    /\ ctrl = "ml"
    /\ model_loaded
    /\ bundle.scaler
    /\ bundle.feature_selector
    /\ bundle.behaviour = Answer("File-Transfer", 801)
    /\ call.steps = <<"prepare", "scale", "predict">>
    /\ call.ret.class = "File-Transfer"

\* C29: in every reachable state every flow of the table has as many stored
\* inter-arrival samples and as many stored packet sizes as packets counted,
\* the first packet included (a flow is in the table only once a packet of
\* it was observed), and its start_time is not after its last_packet_time.
C29_OneSamplePerPacket ==
    \A k \in DOMAIN flow_stats :
        LET st == flow_stats[k]
        IN  /\ st.packet_count >= 1
            /\ Len(st.inter_arrival_times) = st.packet_count
            /\ Len(st.packet_sizes) = st.packet_count
            /\ st.start_time <= st.last_packet_time
            /\ st.last_packet_time <= now

\* C29 witness: a flow of two packets, the second later than the first, with
\* two samples in each window.
C29_Witness ==
    /\ Classified
    /\ flow_stats[call.flow_key].packet_count = 2
    /\ Len(flow_stats[call.flow_key].inter_arrival_times) = 2
    /\ flow_stats[call.flow_key].inter_arrival_times[1] = 0
    /\ flow_stats[call.flow_key].inter_arrival_times[2] > 0
    /\ Len(flow_stats[call.flow_key].packet_sizes) = 2
    /\ flow_stats[call.flow_key].start_time < flow_stats[call.flow_key].last_packet_time

\* The flow-mod the handler sent releases the buffered packet: the packet is
\* buffered in the switch and the flow-mod carries its buffer id.
ReleasedByFlowMod ==
    /\ inp.msg.buffer_id # OFP_NO_BUFFER
    /\ sent # <<>>
    /\ sent[1].type = "flow_mod"
    /\ sent[1].buffer_id = inp.msg.buffer_id

\* The number of packet-outs the handler sent after its first message.
PacketOutsAfterFlowMod ==
    Cardinality({i \in DOMAIN sent : i > 1 /\ sent[i].type = "packet_out"})

\* C30 as stated: every packet-in that is not LLDP and whose destination is
\* learned is released exactly once, whatever its buffer id, 0 included:
\* either the flow-mod carries the packet's buffer id, or one packet-out
\* follows the flow-mod; never a flow-mod without buffer id and no packet-out.
C30_Original ==
    Classified =>
        /\ sent # <<>>
        /\ sent[1].type = "flow_mod"
        /\ IF ReleasedByFlowMod THEN PacketOutsAfterFlowMod = 0
                                ELSE PacketOutsAfterFlowMod = 1

\* C30 witness: a packet buffered under id 0: the handler sent one message,
\* a flow-mod without buffer id, and returned.
C30_Witness ==
    /\ Classified
    /\ inp.msg.buffer_id = 0
    /\ Len(sent) = 1
    /\ sent[1].type = "flow_mod"
    /\ sent[1].buffer_id = OFP_NO_BUFFER
    /\ ~ReleasedByFlowMod
    /\ PacketOutsAfterFlowMod = 0

(***************************************************************************)
(* Claims about the fallback table (SpecFallback)                          *)
(***************************************************************************)

C17_Original ==
    \A k \in DOMAIN flow_stats :
        /\ Len(flow_stats[k].inter_arrival_times) <= 1024
        /\ Len(flow_stats[k].packet_sizes) <= 1024

\* C17 witness: after 1025 packets of one flow both windows hold 1025
\* samples, one per packet.
C17_Witness ==
    /\ Classified
    /\ flow_stats[call.flow_key].packet_count = 1025
    /\ Len(flow_stats[call.flow_key].inter_arrival_times) = 1025
    /\ Len(flow_stats[call.flow_key].packet_sizes) = 1025

(***************************************************************************)
(* Claims about concurrently delivered events (SpecConcurrent)             *)
(***************************************************************************)

\* Each window of a flow holds one sample per packet counted, and the byte
\* count is the sum of the packet sizes.
NoUpdateLost(fs) ==
    \A k \in DOMAIN fs :
        /\ Len(fs[k].packet_sizes) = fs[k].packet_count
        /\ Len(fs[k].inter_arrival_times) = fs[k].packet_count
        /\ SumSeq(fs[k].packet_sizes) = fs[k].byte_count

BulkRange(f) ==
    /\ RatGt(Get(f, "avg_packet_size", RatOfInt(0)), 1200)
    /\ RatGt(Get(f, "byte_rate", RatOfInt(0)), 500000)

\* C26 as stated: the bulk-transfer rule is reachable: among the feature
\* dicts the stage can be called with, those with mean packet size above
\* 1200 and byte rate above 500000 include one for which
\* statistical_classification returns 'File-Transfer'.
C26_Original ==
    /\ inp.op = "statistical"
    /\ \E f \in StatFeatures :
          BulkRange(f) /\ statistical_classification(f).class = "File-Transfer"

\* C26 witness: a dict in the range of the bulk-transfer rule, mean packet
\* size 1500 and byte rate 10000000, returned as 'Video-Streaming'.
C26_Witness ==
    /\ call.op = "statistical"
    /\ BulkRange(inp.features)
    /\ inp.features["avg_packet_size"] = Rat(1500, 1)
    /\ inp.features["byte_rate"] = Rat(10000000, 1)
    /\ call.ret = Triple("Video-Streaming", 600, "Statistical")

(***************************************************************************)
(* Claims about the run-all classifier (SpecRunAll)                        *)
(***************************************************************************)

\* The position of a method tag in the order of the stages.
StageRank(method) ==
    IF method = "DPI" THEN 1
    ELSE IF method = "Port" THEN 2
    ELSE IF method = "Statistical" THEN 3
    ELSE 4

\* C27: classify_traffic calls all four stages for every packet; the pair it
\* returns is a candidate; its confidence is the greatest confidence of any
\* candidate; of the candidates with that confidence it is the one of the
\* earliest stage (DPI, port, statistical, protocol); the protocol stage's
\* pair is always a candidate, of confidence 0.1 or more, so the result is
\* never ('unknown', 0.0).
C27_RunAllMaximum ==
    call.op = "classify" =>
        LET cands == call.classifications
            chosen == Triple(call.ret.class, call.ret.conf, call.method)
            proto == protocol_based_classification(inp.pkt)
        IN  /\ call.stages = <<"dpi", "port", "stat", "protocol">>
            /\ counters.dpi_attempts = 1
            /\ cands # <<>>
            /\ cands[Len(cands)] = Triple(proto.class, proto.conf, "Protocol")
            /\ proto.conf >= 100
            /\ \E i \in DOMAIN cands : cands[i] = chosen
            /\ \A i \in DOMAIN cands :
                   /\ cands[i].conf <= chosen.conf
                   /\ cands[i].conf = chosen.conf =>
                          StageRank(chosen.method) <= StageRank(cands[i].method)
            /\ call.ret # Pair("unknown", 0)
            /\ call.ret.class # "unknown"
            /\ call.ret.conf >= 100

\* C27 witness: a TCP packet of 60 bytes to port 25 without signature: the
\* port stage says 'email_traffic' at 0.6, the statistical stage
\* 'control_traffic' at 0.6, the protocol stage 'tcp_traffic' at 0.5, and the
\* port stage's pair is returned.
C27_Witness ==
    /\ call.op = "classify"
    /\ call.classifications =
           << Triple("email_traffic", 600, "Port"),
              Triple("control_traffic", 600, "Statistical"),
              Triple("tcp_traffic", 500, "Protocol") >>
    /\ call.ret = Pair("email_traffic", 600)
    /\ call.method = "Port"

(***************************************************************************)
(* Claims about the arbitration of the model-based handler (SpecArbitrate) *)
(***************************************************************************)

\* C28: in the model-based controller the confidence the handler passes to
\* the priority mapper, after it has chosen between the model's result and
\* the fallback's, is 0.3 or more, whatever the bundle answers or raises and
\* whatever the two ports are; so the priority computed, which the flow-mod
\* carries, is 1150 or more.
C28_ConfidenceFloor ==
    (Classified /\ ctrl = "ml") =>
        /\ call.ret.conf >= 300
        /\ call.priority =
               get_priority_from_ml_classification(call.ret.class, call.ret.conf)
        /\ call.priority >= 1150
        /\ sent # <<>>
        /\ sent[1].type = "flow_mod"
        /\ \A i \in DOMAIN sent :
               sent[i].type = "flow_mod" => sent[i].priority >= 1150

\* C28 witness: the scorer says 'DNS' at 0.299 for a segment from port 40000
\* to port 21; the handler takes the fallback's default, 'unknown' at 0.3,
\* and the flow-mod carries 1150.
C28_Witness ==
    /\ Classified
    /\ ctrl = "ml"
    /\ model_loaded
    /\ bundle.behaviour = Answer("DNS", 299)
    /\ Get(call.features, "src_port", 0) = 40000
    /\ Get(call.features, "dst_port", 0) = 21
    /\ call.ret = Triple("unknown", 300, "Fallback after ML: Fallback classification")
    /\ sent[1].priority = 1150

====
